---- MODULE Spec2Model ----
(***************************************************************************)
(* Job orchestration core of the YouTube downloader API (src/api.ts):      *)
(* the in-memory job store, the per-job on-disk documents, the launcher    *)
(* (downloadVideo / downloadPlaylist) as the sequence of its await points, *)
(* the queue API handlers (cancel, resume, remove), and startup recovery.  *)
(*                                                                         *)
(* The program is a single-threaded event loop: code between two awaits    *)
(* runs atomically, and any other callback may run at an await.  Each      *)
(* action below is one such run-to-await segment (or several consecutive   *)
(* ones where nothing else can observe the difference).                    *)
(***************************************************************************)
EXTENDS Integers, Sequences, FiniteSets, TLC

\* Job ids (crypto.randomUUID values; also the names of the job directories).
JobIds == {"a", "b", "c"}

\* The ids generateJobId can still return in the lifecycle specification: one
\* job is followed through every interleaving of its launcher and handlers.
Fresh == {"a"}

\* An optional field of the Job interface: Undef is JavaScript's undefined.
Undef == <<>>
Some(x) == <<x>>
IsSet(o) == o # Undef
Val(o) == o[1]

VARIABLES
    jobs,       \* keys of the Map `jobs`: the ids currently in the store
    obj,        \* the Job objects, by id (an object outlives its Map entry
                \* while a launcher closure still holds it)
    disk,       \* DOWNLOADS_DIR/<id>: directory, documents and media files
    proc,       \* the external downloader process of each job
    pc,         \* position of each job's launcher (or of the handler that
                \* is about to dispatch it)
    creq,       \* position of an in-flight cancel handler, per job
    used,       \* ids generateJobId has returned so far
    config,     \* the loaded configuration
    resp,       \* the HTTP response sent by the step just taken (NoResp if the
                \* step sent none)
    cancelled,  \* history: how the job stood when a cancel request for it
                \* began ("no" if none did): "active" (status processing or
                \* playlist with a live process) or "inactive"
    now,        \* Date.now(), in milliseconds
    lastStatusWrite,
                \* the Map `lastStatusWrite`: per job, the time of its last
                \* status write (0 for a job without an entry)
    sweep,      \* the configuration periodicCleanup loaded before the sleep it
                \* is in
    timers,     \* the pending cleanupJobFiles calls: per job, the times at
                \* which their setTimeout is due
    spawned,    \* history: per job, the number of downloader processes
                \* command.spawn() has returned since the orchestrator started
    rateLimits, \* the Map `rateLimits` of the authentication module: per IP,
                \* the array of the times of its recorded failed logins (an
                \* IP without an entry has none)
    logins,     \* the login requests that have passed checkRateLimit and
                \* await login(): per IP, how many will succeed and how many
                \* will fail
    arrivals    \* the number of login requests that have arrived

vars == <<jobs, obj, disk, proc, pc, creq, used, config, resp, cancelled, now, lastStatusWrite,
          sweep, timers, spawned, rateLimits, logins, arrivals>>

\* The state of the login route.
authVars == <<rateLimits, logins, arrivals>>

----------------------------------------------------------------------------
\* Values

JobStatus == {"pending", "processing", "playlist", "completed", "failed", "interrupted"}

\* Percentages a numeric progress line may carry ([\d.]+ has no sign, and no
\* upper limit).
ProgressValues == {20, 150}

\* Files the downloader may leave in the job directory, by kind:
\*   media  a non-empty file with a media extension
\*   part   a partial download (name contains ".part")
Outputs == {"media", "part"}

\* Every kind of file followed: besides the two above,
\*   zero   a file of size 0 with a media extension
\*   temp   a temporary file (name contains ".temp.")
AllOutputs == Outputs \cup {"zero", "temp"}

ExitCodes == {0, 1}

\* Titles of destination lines.
Titles == {"t1", "t2"}

\* Number of items of the playlists the downloader reports.
MaxTracks == 2

\* writeJobStatus lets a non-forced write through only this many milliseconds
\* after the job's last status write.
ThrottleMs == 1500

\* Date.now() when the orchestrator starts, and the milliseconds that pass
\* between two events; the clock is followed up to MaxNow.
Epoch == 2000
TickMs == 500
MaxNow == 5000

\* The number of cleanupJobFiles timeouts followed per job.
MaxTimers == 1

\* cleanup_max_age in milliseconds (the configured minutes * 60_000), on the
\* scale of the clock above.
MaxAgeMs == 1000

\* The addresses login requests come from.
Ips == {"ip1", "ip2"}

\* MAX_LOGIN_ATTEMPTS
MAX_LOGIN_ATTEMPTS == 5

\* RATE_LIMIT_WINDOW (15 minutes), on the scale of the clock above.
RateLimitWindow == 1500

\* The number of login requests followed, and of those that await login()
\* at the same time.
MaxLogins == 6
MaxInFlight == 2

NoLogins == [ip \in Ips |-> [good |-> 0, bad |-> 0]]

\* Request bodies of POST /download: for a single video, and for a playlist.
Requests ==
    { [url |-> "watch?v=x", playlist |-> FALSE, format_type |-> "audio", quality |-> "best"] }

PlaylistRequests ==
    { [url |-> "playlist?list=p", playlist |-> FALSE, format_type |-> "audio", quality |-> "best"] }

\* Request bodies of POST /download for every form of URL, without the
\* playlist flag, and a plain video URL with the flag set.
VideoUrlsWithList == {"watch?v=x&list=p", "youtu.be/x?list=p"}

DetectRequests ==
    { [url |-> u, playlist |-> FALSE, format_type |-> "audio", quality |-> "best"] :
        u \in VideoUrlsWithList \cup {"watch?v=x", "playlist?list=p", "watch?v=x&list="} }
    \cup { [url |-> "watch?v=x", playlist |-> TRUE, format_type |-> "audio", quality |-> "best"] }

\* The configurations the lifecycle and startup specifications range over
\* (periodic cleanup at its default, enabled), and all of them.
Configs == [startup_cleanup : BOOLEAN, cleanup_enabled : {TRUE}]
AllConfigs == [startup_cleanup : BOOLEAN, cleanup_enabled : BOOLEAN]

NoJob ==
    [ status |-> "none", created_at |-> 0, url |-> "", format_type |-> "audio", quality |-> "",
      playlist |-> FALSE, error |-> Undef, file_path |-> Undef, percent |-> Undef,
      playlist_title |-> Undef, total_videos |-> Undef, current_video |-> Undef,
      current_title |-> Undef, video_titles |-> Undef, skipped_videos |-> Undef,
      process |-> FALSE ]

NoDir == [exists |-> FALSE, meta |-> Undef, status |-> Undef, files |-> {}]

NoResp == [op |-> "none", id |-> "", code |-> 0]

----------------------------------------------------------------------------
\* Pure functions of the persistence layer

toStoredStatus(s) ==
    CASE s = "pending" -> "queued"
      [] s \in {"processing", "playlist"} -> "downloading"
      [] s = "completed" -> "complete"
      [] s = "failed" -> "failed"
      [] s = "interrupted" -> "interrupted"

\* fromStoredStatus with the "complete" case misspelt, so that it falls to
\* the default
fromStoredStatusMut(stored) ==
    CASE stored = "queued" -> "pending"
      [] stored = "downloading" -> "interrupted"
      [] stored = "failed" -> "failed"
      [] stored = "interrupted" -> "interrupted"
      [] OTHER -> "failed"

fromStoredStatus(stored) ==
    CASE stored = "queued" -> "pending"
      [] stored = "downloading" -> "interrupted"
      [] stored = "complete" -> "completed"
      [] stored = "failed" -> "failed"
      [] stored = "interrupted" -> "interrupted"
      [] OTHER -> "failed"

Min(a, b) == IF a < b THEN a ELSE b
Max(a, b) == IF a > b THEN a ELSE b

\* Math.max(0, Math.min(100, x))
Clamp(x) == Max(0, Min(100, x))

\* Math.round(cur / total * 100) for positive integers
RoundPct(cur, total) == (200 * cur + total) \div (2 * total)

Truthy(o) == IsSet(o) /\ Val(o) # 0

\* truthiness of an optional string
Truthy2(o) == IsSet(o) /\ Val(o) # ""

getJobProgress(job) ==
    IF IsSet(job.percent) THEN Clamp(Val(job.percent))
    ELSE IF Truthy(job.total_videos) /\ Truthy(job.current_video)
         THEN Clamp(RoundPct(Val(job.current_video), Val(job.total_videos)))
         ELSE 0

\* x || dflt, for an optional field
OrElse(o, dflt) == IF IsSet(o) /\ Val(o) # dflt THEN Val(o) ELSE dflt

\* The metadata document writeJobMetadata serialises.
MetaDoc(id, job) ==
    [ id |-> id, url |-> job.url, created_at |-> job.created_at,
      file_path |-> OrElse(job.file_path, ""),
      format_type |-> job.format_type, quality |-> job.quality,
      playlist |-> job.playlist,
      playlist_title |-> OrElse(job.playlist_title, ""),
      total_videos |-> OrElse(job.total_videos, 0),
      current_video |-> OrElse(job.current_video, 0),
      video_titles |-> OrElse(job.video_titles, <<>>),
      skipped_videos |-> OrElse(job.skipped_videos, <<>>) ]

\* The status document writeJobStatus serialises.
StatusDoc(job) == [status |-> toStoredStatus(job.status), progress |-> getJobProgress(job)]

\* Deno.mkdir(dir, {recursive: true}) followed by writing metadata.json
writeJobMetadata(d, id, job) == [d EXCEPT !.exists = TRUE, !.meta = Some(MetaDoc(id, job))]

\* Deno.mkdir(dir, {recursive: true}) followed by writing status.json
writeJobStatus(d, job) == [d EXCEPT !.exists = TRUE, !.status = Some(StatusDoc(job))]

\* a throttle that lets every write through
ThrottledMut(force, t, last) == FALSE

\* a throttle that holds forced writes back too
ThrottledIgnoreForce(force, t, last) == t - last < ThrottleMs

\* writeJobStatus returns without writing: !force && now - last < 1500
Throttled(force, t, last) == ~force /\ t - last < ThrottleMs

\* writeJobStatus(job, force) at time t, the job's last status write being at
\* time last: the directory after it, and the job's entry of lastStatusWrite.
writeJobStatusAt(d, job, force, t, last) ==
    IF Throttled(force, t, last) THEN d ELSE writeJobStatus(d, job)

StampAt(force, t, last) == IF Throttled(force, t, last) THEN last ELSE t

\* findMediaFileForJob: the first candidate by name, or Undef (null).  Partial
\* files are skipped; the size of a file is not looked at.
Candidates(d) == IF d.exists THEN d.files \cap {"media", "zero"} ELSE {}

\* a scan that does not skip partial files
findMediaFileForJobMut(d) ==
    IF d.exists /\ "part" \in d.files THEN Some("part")
    ELSE IF "media" \in Candidates(d) THEN Some("media")
    ELSE Undef

findMediaFileForJob(d) ==
    IF "media" \in Candidates(d) THEN Some("media")
    ELSE IF "zero" \in Candidates(d) THEN Some("zero")
    ELSE Undef

\* exists(path) for a path inside the job directory
exists(d, path) == d.exists /\ path \in d.files

\* POST /download: a list= parameter or the playlist flag makes a playlist job
\* The query parameters of the URLs requests carry, in order.
Query(url) ==
    CASE url = "watch?v=x" -> << [key |-> "v", value |-> "x"] >>
      [] url = "watch?v=x&list=p" -> << [key |-> "v", value |-> "x"], [key |-> "list", value |-> "p"] >>
      [] url = "youtu.be/x?list=p" -> << [key |-> "list", value |-> "p"] >>
      [] url = "playlist?list=p" -> << [key |-> "list", value |-> "p"] >>
      [] url = "watch?v=x&list=" -> << [key |-> "v", value |-> "x"], [key |-> "list", value |-> ""] >>
      [] OTHER -> << >>

\* body.url.match(/[?&]list=([^&]+)/): some parameter is named list and has
\* a value of at least one character
HasListParam(url) ==
    \E i \in 1..Len(Query(url)) : Query(url)[i].key = "list" /\ Query(url)[i].value # ""
isPlaylist(body) == body.playlist \/ HasListParam(body.url)

----------------------------------------------------------------------------
Init ==
    /\ jobs = {}
    /\ obj = [j \in JobIds |-> NoJob]
    /\ disk = [j \in JobIds |-> NoDir]
    /\ proc = [j \in JobIds |-> "none"]
    /\ pc = [j \in JobIds |-> "idle"]
    /\ creq = [j \in JobIds |-> "none"]
    /\ used = JobIds \ Fresh
    /\ config \in Configs
    /\ resp = NoResp
    /\ cancelled = [j \in JobIds |-> "no"]
    /\ now = Epoch
    /\ lastStatusWrite = [j \in JobIds |-> 0]
    /\ sweep = config
    /\ timers = [j \in JobIds |-> {}]
    /\ spawned = [j \in JobIds |-> 0]
    /\ rateLimits = [ip \in Ips |-> <<>>]
    /\ logins = NoLogins
    /\ arrivals = 0

\* A Job object that neither the Map nor a running callback references any
\* more is dropped.
Collect(o, js, p, c) ==
    [j \in JobIds |-> IF j \notin js /\ p[j] = "idle" /\ c[j] = "none" THEN NoJob ELSE o[j]]

----------------------------------------------------------------------------
\* POST /download, up to its first await: the record is created and stored.
Submit(j, body) ==
    /\ j \notin used
    /\ pc[j] = "idle"
    /\ used' = used \cup {j}
    /\ jobs' = jobs \cup {j}
    /\ obj' = [obj EXCEPT ![j] =
                 [NoJob EXCEPT !.status = "pending", !.created_at = now, !.url = body.url,
                               !.format_type = body.format_type,
                               !.quality = body.quality,
                               !.playlist = isPlaylist(body)]]
    /\ pc' = [pc EXCEPT ![j] = "submit"]
    /\ resp' = NoResp
    /\ UNCHANGED <<disk, proc, creq, config, cancelled>>
    /\ UNCHANGED <<now, lastStatusWrite, sweep, timers, spawned, authVars>>

\* a handler that goes on without writing the metadata document
SubmitMetaMut(j) ==
    /\ pc[j] = "submit"
    /\ pc' = [pc EXCEPT ![j] = "submit2"]
    /\ resp' = NoResp
    /\ UNCHANGED <<jobs, obj, disk, proc, creq, used, config, cancelled>>
    /\ UNCHANGED <<now, lastStatusWrite, sweep, timers, spawned, authVars>>

\* POST /download: ensureDownloadDir and writeJobMetadata
SubmitMeta(j) ==
    /\ pc[j] = "submit"
    /\ disk' = [disk EXCEPT ![j] = writeJobMetadata(@, j, obj[j])]
    /\ pc' = [pc EXCEPT ![j] = "submit2"]
    /\ resp' = NoResp
    /\ UNCHANGED <<jobs, obj, proc, creq, used, config, cancelled>>
    /\ UNCHANGED <<now, lastStatusWrite, sweep, timers, spawned, authVars>>

\* POST /download, the rest: writeJobStatus(job, true), then the launcher is
\* called and runs to its first await (ensureDownloadDir), and the response.
SubmitDispatch(j) ==
    /\ pc[j] = "submit2"
    /\ disk' = [disk EXCEPT ![j] = writeJobStatus(@, obj[j])]
    /\ pc' = [pc EXCEPT ![j] = "ensure"]
    /\ resp' = [op |-> "submit", id |-> j, code |-> 200]
    /\ UNCHANGED <<jobs, obj, proc, creq, used, config, cancelled>>
    /\ lastStatusWrite' = [lastStatusWrite EXCEPT ![j] = now]
    /\ UNCHANGED <<now, sweep, timers, spawned, authVars>>

----------------------------------------------------------------------------
\* The external downloader process

\* The downloader writes a file into the job directory (creating it if needed).
Produce(j, f) ==
    /\ proc[j] = "running"
    /\ f \notin disk[j].files
    /\ disk' = [disk EXCEPT ![j].exists = TRUE, ![j].files = @ \cup {f}]
    /\ resp' = NoResp
    /\ UNCHANGED <<jobs, obj, proc, pc, creq, used, config, cancelled>>
    /\ UNCHANGED <<now, lastStatusWrite, sweep, timers, spawned, authVars>>

\* The downloader exits by itself.
ProcExit(j, code) ==
    /\ proc[j] = "running"
    /\ proc' = [proc EXCEPT ![j] = IF code = 0 THEN "exit0" ELSE "exit1"]
    /\ resp' = NoResp
    /\ UNCHANGED <<jobs, obj, disk, pc, creq, used, config, cancelled>>
    /\ UNCHANGED <<now, lastStatusWrite, sweep, timers, spawned, authVars>>

\* job._process.kill("SIGTERM"): a running process ends with a non-zero
\* status; an exited one is unaffected (the throw is swallowed).
Kill(p) == IF p = "running" THEN "exit1" ELSE p

----------------------------------------------------------------------------
\* The launcher: downloadVideo / downloadPlaylist, one action per await

\* The launcher ends: its closure releases the Job object.
Finish(j, o) ==
    /\ pc' = [pc EXCEPT ![j] = "idle"]
    /\ obj' = Collect(o, jobs, pc', creq)

\* a catch that marks the job interrupted
CatchMutInterrupted(o, msg) == [o EXCEPT !.status = "interrupted", !.error = Some(msg)]

\* a dispatch without a catch: the rejection leaves the record as it is
CatchMut(o, msg) == o

\* the .catch(e => ...) of the dispatching handler: the launcher is over, the
\* job is failed and a forced status write is started (not awaited).
Catch(o, msg) == [o EXCEPT !.status = "failed", !.error = Some(msg)]

\* ensureDownloadDir, then job.status = "processing" | "playlist", then
\* writeJobStatus(job, true) up to its mkdir.
Ensure(j) ==
    /\ pc[j] = "ensure"
    /\ disk' = [disk EXCEPT ![j].exists = TRUE]
    /\ obj' = [obj EXCEPT ![j].status = IF obj[j].playlist THEN "playlist" ELSE "processing"]
    /\ pc' = [pc EXCEPT ![j] = "wstart"]
    /\ resp' = NoResp
    /\ UNCHANGED <<jobs, proc, creq, used, config, cancelled>>
    /\ lastStatusWrite' = [lastStatusWrite EXCEPT ![j] = now]
    /\ UNCHANGED <<now, sweep, timers, spawned, authVars>>

\* the status write of the start, then getCookieArgs
WriteStart(j) ==
    /\ pc[j] = "wstart"
    /\ disk' = [disk EXCEPT ![j] = writeJobStatus(@, obj[j])]
    /\ pc' = [pc EXCEPT ![j] = "spawn"]
    /\ resp' = NoResp
    /\ UNCHANGED <<jobs, obj, proc, creq, used, config, cancelled>>
    /\ UNCHANGED <<now, lastStatusWrite, sweep, timers, spawned, authVars>>

\* The fields downloadPlaylist initialises right after the spawn.
InitTracking(job) ==
    IF job.playlist
    THEN [job EXCEPT !.total_videos = Some(0), !.current_video = Some(0),
                     !.current_title = Some(""), !.video_titles = Some(<<>>),
                     !.skipped_videos = Some(<<>>)]
    ELSE job

\* command.spawn(); job._process = process.  A spawn that throws rejects the
\* launcher's promise and the dispatcher's catch runs.
Spawn(j, ok) ==
    /\ pc[j] = "spawn"
    /\ IF ok
       THEN /\ proc' = [proc EXCEPT ![j] = "running"]
            /\ obj' = [obj EXCEPT ![j] = InitTracking([@ EXCEPT !.process = TRUE])]
            /\ pc' = [pc EXCEPT ![j] = "read"]
       ELSE /\ obj' = [obj EXCEPT ![j] = Catch(@, "spawn failed")]
            /\ pc' = [pc EXCEPT ![j] = "wfail"]
            /\ UNCHANGED proc
    /\ spawned' = [spawned EXCEPT ![j] = IF ok THEN @ + 1 ELSE @]
    /\ UNCHANGED authVars
    /\ resp' = NoResp
    /\ UNCHANGED <<jobs, disk, creq, used, config, cancelled>>
    /\ UNCHANGED <<now, lastStatusWrite, sweep, timers>>

\* parseProgress: a numeric progress line sets job.percent to its number.
parseProgress(job, p) == [job EXCEPT !.percent = Some(p)]

\* readStdout, a numeric progress line: parseProgress, then writeJobStatus(job)
\* which writes only if 1500 ms have passed since the job's last status write.
ProgressLine(j, p, elapsed) ==
    /\ pc[j] = "read"
    /\ obj' = [obj EXCEPT ![j] = parseProgress(@, p)]
    /\ disk' = IF elapsed THEN [disk EXCEPT ![j] = writeJobStatus(@, obj'[j])] ELSE disk
    /\ lastStatusWrite' = IF elapsed THEN [lastStatusWrite EXCEPT ![j] = now] ELSE lastStatusWrite
    /\ resp' = NoResp
    /\ UNCHANGED <<jobs, proc, pc, creq, used, config, cancelled, now, sweep, timers, spawned, authVars>>

\* readStdout, a numeric progress line, with the clock followed
TimedProgressLine(j, p) == ProgressLine(j, p, ~Throttled(FALSE, now, lastStatusWrite[j]))

\* Time passes between two events.
Tick ==
    /\ now + TickMs <= MaxNow
    /\ now' = now + TickMs
    /\ resp' = NoResp
    /\ UNCHANGED <<jobs, obj, disk, proc, pc, creq, used, config, cancelled, lastStatusWrite, sweep, timers, spawned, authVars>>

\* readers that see EOF only when the process has ended with code 0
EofMut(j) ==
    /\ pc[j] \in {"read", "drain"}
    /\ proc[j] = "exit0"
    /\ ~obj[j].playlist
    /\ proc' = [proc EXCEPT ![j] = "none"]
    /\ obj' = [obj EXCEPT ![j].process = FALSE]
    /\ pc' = [pc EXCEPT ![j] = "find"]
    /\ resp' = NoResp
    /\ UNCHANGED <<jobs, disk, creq, used, config, cancelled>>
    /\ UNCHANGED <<now, lastStatusWrite, sweep, timers, spawned, authVars>>

\* Both readers are over (EOF, or the stdout reader left its loop on an
\* exception) and process.status resolved: the handle is dropped;
\* downloadVideo fails the job on a non-zero code.
Eof(j) ==
    /\ pc[j] \in {"read", "drain"}
    /\ proc[j] \in {"exit0", "exit1"}
    /\ ~obj[j].playlist
    /\ proc' = [proc EXCEPT ![j] = "none"]
    /\ IF proc[j] = "exit1"
       THEN /\ obj' = [obj EXCEPT ![j].process = FALSE, ![j].status = "failed",
                                  ![j].error = Some("Download failed")]
            /\ pc' = [pc EXCEPT ![j] = "wfail"]
       ELSE /\ obj' = [obj EXCEPT ![j].process = FALSE]
            /\ pc' = [pc EXCEPT ![j] = "find"]
    /\ resp' = NoResp
    /\ UNCHANGED <<jobs, disk, creq, used, config, cancelled>>
    /\ UNCHANGED <<now, lastStatusWrite, sweep, timers, spawned, authVars>>

\* downloadVideo after findMediaFileForJob
Find(j) ==
    /\ pc[j] = "find"
    /\ LET out == findMediaFileForJob(disk[j]) IN
         IF out = Undef
         THEN /\ obj' = [obj EXCEPT ![j].status = "failed",
                                    ![j].error = Some("No files downloaded")]
              /\ pc' = [pc EXCEPT ![j] = "wfail"]
         ELSE /\ obj' = [obj EXCEPT ![j].status = "completed", ![j].percent = Some(100),
                                    ![j].file_path = out]
              /\ pc' = [pc EXCEPT ![j] = "wmeta"]
    /\ resp' = NoResp
    /\ UNCHANGED <<jobs, disk, proc, creq, used, config, cancelled>>
    /\ UNCHANGED <<now, lastStatusWrite, sweep, timers, spawned, authVars>>

\* The files downloadPlaylist counts after the exit: non-empty files with the
\* format's extension whose name has no ".temp." and no ".part".
PlaylistFiles(d) == d.files \cap {"media"}

\* downloadPlaylist, EOF of both readers and process.status: the handle is
\* dropped and the directory is read.  Deno.readDir of a missing directory
\* throws, which rejects the launcher: the dispatcher's catch fails the job.
\* Otherwise total_videos and current_video become the number of files and
\* writeJobMetadata is awaited.
EofPlaylist(j) ==
    /\ pc[j] \in {"read", "drain"}
    /\ proc[j] \in {"exit0", "exit1"}
    /\ obj[j].playlist
    /\ IF disk[j].exists
       THEN /\ obj' = [obj EXCEPT ![j].process = FALSE,
                                  ![j].total_videos = Some(Cardinality(PlaylistFiles(disk[j]))),
                                  ![j].current_video = Some(Cardinality(PlaylistFiles(disk[j])))]
            /\ pc' = [pc EXCEPT ![j] = "pmeta"]
            /\ UNCHANGED proc
       ELSE /\ obj' = [obj EXCEPT ![j] = Catch([@ EXCEPT !.process = FALSE], "NotFound")]
            /\ pc' = [pc EXCEPT ![j] = "wfail"]
            /\ proc' = [proc EXCEPT ![j] = "none"]
    /\ resp' = NoResp
    /\ UNCHANGED <<jobs, disk, creq, used, config, cancelled>>
    /\ UNCHANGED <<now, lastStatusWrite, sweep, timers, spawned, authVars>>

\* The error of a playlist without files when stderr held no ERROR line.
NoFilesError(code) ==
    IF code # 0 THEN "All videos in playlist were unavailable or blocked"
    ELSE "No files downloaded from playlist"

\* The exit code process.status resolved with.
ExitCode(p) == IF p = "exit0" THEN 0 ELSE 1

\* a decision that also fails a playlist whose process exited non-zero
PlaylistFailedMut(n, code) == n = 0 \/ code # 0

\* a decision that fails an empty playlist only on a non-zero exit
PlaylistFailedMutExit(n, code) == n = 0 /\ code # 0

\* "Only fail if we got NO files": files.length === 0, whatever the code
PlaylistFailed(n, code) == n = 0

\* downloadPlaylist: the metadata write, then (a second readDir, which throws
\* on a missing directory) the decision: no file fails the job, otherwise
\* the archiver is started.
PlaylistDecide(j) ==
    /\ pc[j] = "pmeta"
    /\ disk' = [disk EXCEPT ![j] = writeJobMetadata(@, j, obj[j])]
    /\ UNCHANGED proc
    /\ IF PlaylistFailed(Val(obj[j].total_videos), ExitCode(proc[j]))
       THEN /\ obj' = [obj EXCEPT ![j].status = "failed",
                                  ![j].error = Some(NoFilesError(ExitCode(proc[j])))]
            /\ pc' = [pc EXCEPT ![j] = "wfail"]
       ELSE /\ pc' = [pc EXCEPT ![j] = "zip"]
            /\ UNCHANGED obj
    /\ resp' = NoResp
    /\ UNCHANGED <<jobs, creq, used, config, cancelled>>
    /\ UNCHANGED <<now, lastStatusWrite, sweep, timers, spawned, authVars>>

\* an archive failure that is logged while the job completes
ZipFailureMut(job) == [job EXCEPT !.status = "completed"]

\* the catch of the archive step: status and error are set, nothing else
ZipFailure(job) ==
    [job EXCEPT !.status = "failed", !.error = Some("Failed to create ZIP archive")]

\* downloadPlaylist: the archiver has run.  It can only succeed on files that
\* are still there; a non-zero exit or a missing archive fails the job.
Zip(j, ok) ==
    /\ pc[j] = "zip"
    /\ ok => disk[j].exists /\ PlaylistFiles(disk[j]) # {}
    /\ IF ok
       THEN /\ disk' = [disk EXCEPT ![j].files = @ \cup {"zip"}]
            /\ obj' = [obj EXCEPT ![j].status = "completed", ![j].file_path = Some("zip")]
            /\ pc' = [pc EXCEPT ![j] = "wmeta"]
       ELSE /\ obj' = [obj EXCEPT ![j] = ZipFailure(@)]
            /\ pc' = [pc EXCEPT ![j] = "wfail"]
            /\ UNCHANGED disk
    /\ resp' = NoResp
    /\ UNCHANGED <<jobs, proc, creq, used, config, cancelled>>
    /\ UNCHANGED <<now, lastStatusWrite, sweep, timers, spawned, authVars>>

\* a boundary that keeps the progress and the title of the track before
BoundaryMut(job, n, m) == [job EXCEPT !.current_video = Some(n), !.total_videos = Some(m)]

\* The assignments of the "Downloading item N of M" branch.
Boundary(job, n, m) ==
    [job EXCEPT !.current_video = Some(n), !.total_videos = Some(m),
                !.current_title = Some(""), !.percent = Some(0)]

\* readStdout of downloadPlaylist, "Downloading item N of M": the counters are
\* set, the title cleared, percent reset, and both documents written (the
\* status write forced).
BoundaryLine(j, n, m) ==
    /\ pc[j] = "read"
    /\ obj[j].playlist
    /\ obj' = [obj EXCEPT ![j] = Boundary(@, n, m)]
    /\ disk' = [disk EXCEPT ![j] = writeJobStatusAt(writeJobMetadata(@, j, obj'[j]), obj'[j],
                                                    TRUE, now, lastStatusWrite[j])]
    /\ resp' = NoResp
    /\ UNCHANGED <<jobs, proc, pc, creq, used, config, cancelled>>
    /\ lastStatusWrite' = [lastStatusWrite EXCEPT ![j] = StampAt(TRUE, now, @)]
    /\ UNCHANGED <<now, sweep, timers, spawned, authVars>>

\* arr.includes(x)
Includes(arr, x) == \E i \in 1..Len(arr) : arr[i] = x

\* A "[download] Destination:" line (or, in a playlist, an "[ExtractAudio]
\* Destination:" line): the title is the file name without its extension.
\* downloadVideo stores it; downloadPlaylist stores a title that differs from
\* the current one and appends it to video_titles unless already there.
SetTitle(job, title) ==
    IF ~job.playlist
    THEN [job EXCEPT !.current_title = Some(title)]
    ELSE IF job.current_title = Some(title)
         THEN job
         ELSE [job EXCEPT !.current_title = Some(title),
                          !.video_titles = IF Includes(Val(@), title) THEN @
                                           ELSE Some(Append(Val(@), title))]

\* readStdout, a destination line: the title, then writeJobMetadata
DestinationLine(j, title) ==
    /\ pc[j] = "read"
    /\ obj' = [obj EXCEPT ![j] = SetTitle(@, title)]
    /\ disk' = [disk EXCEPT ![j] = writeJobMetadata(@, j, obj'[j])]
    /\ resp' = NoResp
    /\ UNCHANGED <<jobs, proc, pc, creq, used, config, cancelled>>
    /\ UNCHANGED <<now, lastStatusWrite, sweep, timers, spawned, authVars>>

\* readStdout of downloadPlaylist, "Finished downloading playlist: NAME"
PlaylistNameLine(j, name) ==
    /\ pc[j] = "read"
    /\ obj[j].playlist
    /\ obj' = [obj EXCEPT ![j].playlist_title = Some(name)]
    /\ disk' = [disk EXCEPT ![j] = writeJobMetadata(@, j, obj'[j])]
    /\ resp' = NoResp
    /\ UNCHANGED <<jobs, proc, pc, creq, used, config, cancelled>>
    /\ UNCHANGED <<now, lastStatusWrite, sweep, timers, spawned, authVars>>

\* a skip marker: the current title, if any, joins skipped_videos once
Skip(job) ==
    IF Truthy2(job.current_title) /\ ~Includes(Val(job.skipped_videos), Val(job.current_title))
    THEN [job EXCEPT !.skipped_videos = Some(Append(Val(@), Val(job.current_title)))]
    ELSE job

\* readStdout of downloadPlaylist, an "unavailable / private video" line
SkipLine(j) ==
    /\ pc[j] = "read"
    /\ obj[j].playlist
    /\ obj' = [obj EXCEPT ![j] = Skip(@)]
    /\ disk' = [disk EXCEPT ![j] = writeJobMetadata(@, j, obj'[j])]
    /\ resp' = NoResp
    /\ UNCHANGED <<jobs, proc, pc, creq, used, config, cancelled>>
    /\ UNCHANGED <<now, lastStatusWrite, sweep, timers, spawned, authVars>>

\* the writeJobMetadata of a completion
WriteMeta(j) ==
    /\ pc[j] = "wmeta"
    /\ disk' = [disk EXCEPT ![j] = writeJobMetadata(@, j, obj[j])]
    /\ pc' = [pc EXCEPT ![j] = "wdone"]
    /\ resp' = NoResp
    /\ UNCHANGED <<jobs, obj, proc, creq, used, config, cancelled>>
    /\ UNCHANGED <<now, lastStatusWrite, sweep, timers, spawned, authVars>>

\* the last forced status write of a launcher (failure or completion); the
\* launcher returns and its exit code goes out of scope
WriteFinal(j) ==
    /\ pc[j] \in {"wfail", "wdone"}
    /\ disk' = [disk EXCEPT ![j] = writeJobStatusAt(@, obj[j], TRUE, now, lastStatusWrite[j])]
    /\ Finish(j, obj)
    /\ proc' = [proc EXCEPT ![j] = IF @ = "running" THEN @ ELSE "none"]
    /\ resp' = NoResp
    /\ UNCHANGED <<jobs, creq, used, config, cancelled>>
    /\ lastStatusWrite' = [lastStatusWrite EXCEPT ![j] = StampAt(TRUE, now, @)]
    /\ UNCHANGED <<now, sweep, timers, spawned, authVars>>

----------------------------------------------------------------------------
\* Failing writes of the two documents: Deno.mkdir or Deno.writeTextFile
\* throws inside writeJobMetadata / writeJobStatus, which catch nothing.

IoError(j, code) == [op |-> "ioerror", id |-> j, code |-> code]

\* POST /download, writeJobMetadata or writeJobStatus throws: the handler's
\* catch answers 500; the record stays in the store, pending, and no launcher
\* is dispatched.
SubmitWriteFails(j) ==
    /\ pc[j] \in {"submit", "submit2"}
    /\ pc' = [pc EXCEPT ![j] = "idle"]
    /\ resp' = IoError(j, 500)
    /\ lastStatusWrite' = [lastStatusWrite EXCEPT ![j] = IF pc[j] = "submit2" THEN now ELSE @]
    /\ UNCHANGED <<jobs, obj, disk, proc, creq, used, config, cancelled, now, sweep, timers, spawned, authVars>>

\* The launcher's writes outside the reader loops (the status write of the
\* start, the two writes of a completion): the exception rejects the
\* launcher's promise, and the dispatcher's catch fails the job and starts a
\* forced status write.
LauncherWriteFails(j) ==
    /\ pc[j] \in {"wstart", "wmeta", "wdone"}
    /\ obj' = [obj EXCEPT ![j] = Catch(@, "write failed")]
    /\ pc' = [pc EXCEPT ![j] = "wfail"]
    /\ resp' = IoError(j, 0)
    /\ lastStatusWrite' = [lastStatusWrite EXCEPT ![j] = IF pc[j] = "wdone" THEN now ELSE @]
    /\ UNCHANGED <<jobs, disk, proc, creq, used, config, cancelled, now, sweep, timers, spawned, authVars>>

\* readStdout, a numeric progress line whose status write throws: the try
\* block encloses the whole loop, so the catch logs the error and readStdout
\* returns; stdout is read no more, while readStderr and process.status are
\* still awaited.
ReaderWriteFails(j, p) ==
    /\ pc[j] = "read"
    /\ obj' = [obj EXCEPT ![j] = parseProgress(@, p)]
    /\ pc' = [pc EXCEPT ![j] = "drain"]
    /\ resp' = IoError(j, 0)
    /\ lastStatusWrite' = [lastStatusWrite EXCEPT ![j] = now]
    /\ UNCHANGED <<jobs, disk, proc, creq, used, config, cancelled, now, sweep, timers, spawned, authVars>>

----------------------------------------------------------------------------
\* POST /queue/:jobId/cancel

\* An active job: status processing or playlist, holding a live process.
Active(job, p) == job.status \in {"processing", "playlist"} /\ job.process /\ p = "running"

\* up to the first await: the process is signalled and the record is failed
CancelBegin(j) ==
    /\ j \in jobs
    /\ creq[j] = "none"
    /\ proc' = [proc EXCEPT ![j] = IF obj[j].process THEN Kill(@) ELSE @]
    /\ obj' = [obj EXCEPT ![j].status = "failed", ![j].error = Some("Cancelled by user"),
                          ![j].process = FALSE]
    /\ creq' = [creq EXCEPT ![j] = "write"]
    /\ cancelled' = [cancelled EXCEPT ![j] =
                        IF @ = "active" \/ Active(obj[j], proc[j]) THEN "active" ELSE "inactive"]
    /\ resp' = NoResp
    /\ UNCHANGED <<jobs, disk, pc, used, config>>
    /\ lastStatusWrite' = [lastStatusWrite EXCEPT ![j] = now]
    /\ UNCHANGED <<now, sweep, timers, spawned, authVars>>

\* writeJobStatus(job, true)
CancelWrite(j) ==
    /\ creq[j] = "write"
    /\ disk' = [disk EXCEPT ![j] = writeJobStatus(@, obj[j])]
    /\ creq' = [creq EXCEPT ![j] = "remove"]
    /\ resp' = NoResp
    /\ UNCHANGED <<jobs, obj, proc, pc, used, config, cancelled>>
    /\ UNCHANGED <<now, lastStatusWrite, sweep, timers, spawned, authVars>>

\* Deno.remove(folderPath, {recursive: true}) and the response
CancelRemove(j) ==
    /\ creq[j] = "remove"
    /\ disk' = [disk EXCEPT ![j] = NoDir]
    /\ creq' = [creq EXCEPT ![j] = "none"]
    /\ obj' = Collect(obj, jobs, pc, creq')
    /\ resp' = [op |-> "cancel", id |-> j, code |-> 200]
    /\ UNCHANGED <<jobs, proc, pc, used, config, cancelled>>
    /\ UNCHANGED <<now, lastStatusWrite, sweep, timers, spawned, authVars>>

----------------------------------------------------------------------------
\* POST /queue/:jobId/resume

\* a resume guard that also lets jobs through that are being downloaded
ResumableMutActive(job) == job.status \in {"interrupted", "processing", "playlist"}

\* a resume guard that also lets failed jobs through
ResumableMut(job) == job.status \in {"interrupted", "failed"}

\* the guard of resume: job.status !== "interrupted" is rejected
Resumable(job) == job.status = "interrupted"

\* a job that is not interrupted: 400, nothing else
ResumeReject(j) ==
    /\ j \in jobs
    /\ ~Resumable(obj[j])
    /\ resp' = [op |-> "resume", id |-> j, code |-> 400]
    /\ UNCHANGED <<jobs, obj, disk, proc, pc, creq, used, config, cancelled>>
    /\ UNCHANGED <<now, lastStatusWrite, sweep, timers, spawned, authVars>>

\* an interrupted job: status pending, error cleared, writeJobStatus awaited
Resume(j) ==
    /\ j \in jobs
    /\ Resumable(obj[j])
    /\ obj' = [obj EXCEPT ![j].status = "pending", ![j].error = Undef]
    /\ pc' = [pc EXCEPT ![j] = "resume"]
    /\ resp' = NoResp
    /\ UNCHANGED <<jobs, disk, proc, creq, used, config, cancelled>>
    /\ lastStatusWrite' = [lastStatusWrite EXCEPT ![j] = now]
    /\ UNCHANGED <<now, sweep, timers, spawned, authVars>>

\* the status write, then the launcher is called with resume = true and runs
\* to its first await, and the response
ResumeDispatch(j) ==
    /\ pc[j] = "resume"
    /\ disk' = [disk EXCEPT ![j] = writeJobStatus(@, obj[j])]
    /\ pc' = [pc EXCEPT ![j] = "ensure"]
    /\ resp' = [op |-> "resume", id |-> j, code |-> 200]
    /\ UNCHANGED <<jobs, obj, proc, creq, used, config, cancelled>>
    /\ UNCHANGED <<now, lastStatusWrite, sweep, timers, spawned, authVars>>

----------------------------------------------------------------------------
\* DELETE /queue/:jobId: the directory is removed, then the record
Remove(j) ==
    /\ j \in jobs
    /\ disk' = [disk EXCEPT ![j] = NoDir]
    /\ jobs' = jobs \ {j}
    /\ obj' = Collect(obj, jobs', pc, creq)
    /\ resp' = [op |-> "remove", id |-> j, code |-> 200]
    /\ UNCHANGED <<proc, pc, creq, used, config, cancelled>>
    /\ UNCHANGED <<now, lastStatusWrite, sweep, timers, spawned, authVars>>

\* a handler that removes the directory before it looks the id up
NotFoundMut(op, j) ==
    /\ j \notin jobs
    /\ disk' = [disk EXCEPT ![j] = NoDir]
    /\ resp' = [op |-> op, id |-> j, code |-> 404]
    /\ UNCHANGED <<jobs, obj, proc, pc, creq, used, config, cancelled>>
    /\ UNCHANGED <<now, lastStatusWrite, sweep, timers, spawned, authVars>>

\* a request naming an id that is not in the store
NotFound(op, j) ==
    /\ j \notin jobs
    /\ resp' = [op |-> op, id |-> j, code |-> 404]
    /\ UNCHANGED <<jobs, obj, disk, proc, pc, creq, used, config, cancelled>>
    /\ UNCHANGED <<now, lastStatusWrite, sweep, timers, spawned, authVars>>

----------------------------------------------------------------------------
\* Startup: rebuildQueueFromDisk and cleanupOrphanedFolders

\* status.json as rebuildQueueFromDisk uses it: the default when it is
\* missing or unreadable
StoredOf(d) == IF IsSet(d.status) THEN Val(d.status) ELSE [status |-> "failed", progress |-> 0]

\* A directory rebuildQueueFromDisk loads: its metadata.json parses.
Readable(d) == d.exists /\ IsSet(d.meta)

\* The id of a loaded job: meta.id if it is a non-blank string, else the
\* directory's name.
LoadId(name, d) == IF Val(d.meta).id # "" THEN Val(d.meta).id ELSE name

\* LoadJob reading current_video from the total_videos key
LoadJobMut(d) ==
    LET meta == Val(d.meta)
        st == StoredOf(d)
    IN  [ status |-> fromStoredStatus(st.status),
          created_at |-> meta.created_at,
          url |-> meta.url,
          format_type |-> IF meta.format_type = "video" THEN "video" ELSE "audio",
          quality |-> IF meta.quality # "" THEN meta.quality ELSE "best",
          playlist |-> meta.playlist,
          error |-> Undef,
          file_path |-> IF meta.file_path # "" THEN Some(meta.file_path) ELSE Undef,
          percent |-> Some(st.progress),
          playlist_title |-> IF meta.playlist_title # "" THEN Some(meta.playlist_title) ELSE Undef,
          total_videos |-> Some(meta.total_videos),
          current_video |-> Some(meta.total_videos),
          current_title |-> Undef,
          video_titles |-> Some(meta.video_titles),
          skipped_videos |-> Some(meta.skipped_videos),
          process |-> FALSE ]

\* The Job literal rebuildQueueFromDisk builds from the two documents.
LoadJob(d) ==
    LET meta == Val(d.meta)
        st == StoredOf(d)
    IN  [ status |-> fromStoredStatus(st.status),
          created_at |-> meta.created_at,
          url |-> meta.url,
          format_type |-> IF meta.format_type = "video" THEN "video" ELSE "audio",
          quality |-> IF meta.quality # "" THEN meta.quality ELSE "best",
          playlist |-> meta.playlist,
          error |-> Undef,
          file_path |-> IF meta.file_path # "" THEN Some(meta.file_path) ELSE Undef,
          percent |-> Some(st.progress),
          playlist_title |-> IF meta.playlist_title # "" THEN Some(meta.playlist_title) ELSE Undef,
          total_videos |-> Some(meta.total_videos),
          current_video |-> Some(meta.current_video),
          current_title |-> Undef,
          video_titles |-> Some(meta.video_titles),
          skipped_videos |-> Some(meta.skipped_videos),
          process |-> FALSE ]

\* a validation that adopts a found file but never downgrades the job
ValidateMut(d, job) ==
    IF job.status = "completed" /\ (~IsSet(job.file_path) \/ ~exists(d, Val(job.file_path)))
       /\ IsSet(findMediaFileForJob(d))
    THEN [job EXCEPT !.file_path = findMediaFileForJob(d)]
    ELSE job

\* "Validate completed files": a completed job whose file is gone is given
\* the first media file of its directory, or failed.
Validate(d, job) ==
    IF job.status = "completed" /\ (~IsSet(job.file_path) \/ ~exists(d, Val(job.file_path)))
    THEN IF IsSet(findMediaFileForJob(d))
         THEN [job EXCEPT !.file_path = findMediaFileForJob(d)]
         ELSE [job EXCEPT !.status = "failed",
                          !.error = Some("Output file missing after restart")]
    ELSE job

\* "If previously downloading, mark interrupted"
MarkInterrupted(d, job) ==
    IF StoredOf(d).status = "downloading" THEN [job EXCEPT !.status = "interrupted"] ELSE job

\* The record one readable directory is loaded as.
Recovered(d) == MarkInterrupted(d, Validate(d, LoadJob(d)))

\* a purge that spares the directories holding a readable metadata.json
cleanupOrphanedFoldersMut(d) == [j \in JobIds |-> IF Readable(d[j]) THEN d[j] ELSE NoDir]

\* cleanupOrphanedFolders with startup_cleanup on: every directory under
\* DOWNLOADS_DIR is removed.
cleanupOrphanedFolders(d) == [j \in JobIds |-> NoDir]

\* The orchestrator process ends (crash or stop) and is started again with
\* configuration c: nothing in memory survives, the disk does.  main() runs
\* rebuildQueueFromDisk and cleanupOrphanedFolders before the server listens,
\* so no request and no launcher runs in between.
Restart(c) ==
    /\ config' = c
    /\ proc' = [j \in JobIds |-> "none"]
    /\ pc' = [j \in JobIds |-> "idle"]
    /\ creq' = [j \in JobIds |-> "none"]
    /\ IF c.startup_cleanup
       THEN /\ jobs' = {}
            /\ obj' = [j \in JobIds |-> NoJob]
            /\ disk' = cleanupOrphanedFolders(disk)
       ELSE /\ jobs' = {LoadId(j, disk[j]) : j \in {k \in JobIds : Readable(disk[k])}}
            /\ obj' = [j \in JobIds |-> IF Readable(disk[j]) THEN Recovered(disk[j]) ELSE NoJob]
            /\ disk' = [j \in JobIds |->
                          IF Readable(disk[j])
                          THEN writeJobStatus(writeJobMetadata(disk[j], j, obj'[j]), obj'[j])
                          ELSE disk[j]]
    /\ resp' = [op |-> "startup", id |-> "", code |-> 200]
    /\ cancelled' = [j \in JobIds |-> "no"]
    /\ lastStatusWrite' = [j \in JobIds |-> IF j \in jobs' THEN now ELSE 0]
    /\ sweep' = c
    /\ timers' = [j \in JobIds |-> {}]
    /\ spawned' = [j \in JobIds |-> 0]
    /\ rateLimits' = [ip \in Ips |-> <<>>]
    /\ logins' = NoLogins
    /\ UNCHANGED arrivals
    /\ UNCHANGED <<used, now>>

----------------------------------------------------------------------------
\* The launcher's steps that downloadVideo and downloadPlaylist share, the
\* process, resume, and a restart of the orchestrator.
Launcher(j) ==
    \/ SubmitMeta(j)
    \/ SubmitDispatch(j)
    \/ \E f \in Outputs : Produce(j, f)
    \/ \E code \in ExitCodes : ProcExit(j, code)
    \/ Ensure(j)
    \/ WriteStart(j)
    \/ \E ok \in BOOLEAN : Spawn(j, ok)
    \/ \E p \in ProgressValues, e \in BOOLEAN : ProgressLine(j, p, e)
    \/ WriteMeta(j)
    \/ WriteFinal(j)
    \/ ResumeReject(j)
    \/ Resume(j)
    \/ ResumeDispatch(j)
    \/ \E c \in Configs : Restart(c)

\* The queue API's cancel and remove.
Queue(j) ==
    \/ CancelBegin(j)
    \/ CancelWrite(j)
    \/ CancelRemove(j)
    \/ Remove(j)
    \/ \E op \in {"cancel", "resume", "remove"} : NotFound(op, j)

\* The life of a single-video job under every interleaving of its launcher
\* with the queue API.
Next ==
    \E j \in Fresh :
        \/ \E body \in Requests : Submit(j, body)
        \/ Launcher(j)
        \/ Queue(j)
        \/ DestinationLine(j, "t1")
        \/ Eof(j)
        \/ Find(j)

Spec == Init /\ [][Next]_vars

\* The life of a playlist job that is left to run (no cancel, no remove).
NextPlaylist ==
    \E j \in Fresh :
        \/ \E body \in PlaylistRequests : Submit(j, body)
        \/ Launcher(j)
        \/ EofPlaylist(j)
        \/ PlaylistDecide(j)
        \/ \E ok \in BOOLEAN : Zip(j, ok)
        \/ \E n \in 1..MaxTracks : BoundaryLine(j, n, MaxTracks)
        \/ \E t \in Titles : DestinationLine(j, t)
        \/ PlaylistNameLine(j, "PL")
        \/ SkipLine(j)

SpecPlaylist == Init /\ [][NextPlaylist]_vars

\* The life of a single-video job that is left to run while writes of its
\* documents can fail.
NextIo ==
    \E j \in Fresh :
        \/ \E body \in Requests : Submit(j, body)
        \/ SubmitMeta(j)
        \/ SubmitDispatch(j)
        \/ SubmitWriteFails(j)
        \/ Ensure(j)
        \/ WriteStart(j)
        \/ LauncherWriteFails(j)
        \/ Spawn(j, TRUE)
        \/ \E f \in Outputs : Produce(j, f)
        \/ \E code \in ExitCodes : ProcExit(j, code)
        \/ \E p \in ProgressValues, e \in BOOLEAN : ProgressLine(j, p, e)
        \/ \E p \in ProgressValues : ReaderWriteFails(j, p)
        \/ DestinationLine(j, "t1")
        \/ Eof(j)
        \/ Find(j)
        \/ WriteMeta(j)
        \/ WriteFinal(j)

SpecIo == Init /\ [][NextIo]_vars

\* The ids generateJobId can still return when two jobs are followed.
Pair == {"a", "b"}

\* The orchestrator has started on an empty downloads directory.
InitPair ==
    /\ jobs = {}
    /\ obj = [j \in JobIds |-> NoJob]
    /\ disk = [j \in JobIds |-> NoDir]
    /\ proc = [j \in JobIds |-> "none"]
    /\ pc = [j \in JobIds |-> "idle"]
    /\ creq = [j \in JobIds |-> "none"]
    /\ used = JobIds \ Pair
    /\ config \in {c \in Configs : ~c.startup_cleanup}
    /\ resp = NoResp
    /\ cancelled = [j \in JobIds |-> "no"]
    /\ now = Epoch
    /\ lastStatusWrite = [j \in JobIds |-> 0]
    /\ sweep = config
    /\ timers = [j \in JobIds |-> {}]
    /\ spawned = [j \in JobIds |-> 0]
    /\ rateLimits = [ip \in Ips |-> <<>>]
    /\ logins = NoLogins
    /\ arrivals = 0

\* Two single-video jobs side by side, the downloader binary being there
\* for a spawn or not.
NextPair ==
    \E j \in Pair :
        \/ \E body \in Requests : Submit(j, body)
        \/ SubmitMeta(j)
        \/ SubmitDispatch(j)
        \/ Ensure(j)
        \/ WriteStart(j)
        \/ \E ok \in BOOLEAN : Spawn(j, ok)
        \/ Produce(j, "media")
        \/ \E code \in ExitCodes : ProcExit(j, code)
        \/ Eof(j)
        \/ Find(j)
        \/ WriteMeta(j)
        \/ WriteFinal(j)

SpecPair == InitPair /\ [][NextPair]_vars

\* One job of either kind under cancel requests, followed to the end of its
\* launcher.
NextLive ==
    \E j \in Fresh :
        \/ \E body \in Requests \cup PlaylistRequests : Submit(j, body)
        \/ SubmitMeta(j)
        \/ SubmitDispatch(j)
        \/ Ensure(j)
        \/ WriteStart(j)
        \/ \E ok \in BOOLEAN : Spawn(j, ok)
        \/ Produce(j, "media")
        \/ \E code \in ExitCodes : ProcExit(j, code)
        \/ \E p \in ProgressValues, e \in BOOLEAN : ProgressLine(j, p, e)
        \/ Eof(j)
        \/ Find(j)
        \/ EofPlaylist(j)
        \/ PlaylistDecide(j)
        \/ \E ok \in BOOLEAN : Zip(j, ok)
        \/ WriteMeta(j)
        \/ WriteFinal(j)
        \/ CancelBegin(j)
        \/ CancelWrite(j)
        \/ CancelRemove(j)

\* The continuation of the launcher after the await it is in: the event loop
\* runs it once the awaited operation has settled.  In the reader loops that
\* is the EOF of both streams, which needs the process to have exited.
LauncherStep(j) ==
    \/ Ensure(j)
    \/ WriteStart(j)
    \/ \E ok \in BOOLEAN : Spawn(j, ok)
    \/ Eof(j)
    \/ Find(j)
    \/ EofPlaylist(j)
    \/ PlaylistDecide(j)
    \/ \E ok \in BOOLEAN : Zip(j, ok)
    \/ WriteMeta(j)
    \/ WriteFinal(j)

\* Every settled await of the launcher is continued, and the external
\* process, once spawned, exits (by itself or on cancel's signal).
SpecLive ==
    /\ Init /\ [][NextLive]_vars
    /\ \A j \in Fresh : WF_vars(LauncherStep(j))
    /\ \A j \in Fresh : WF_vars(\E code \in ExitCodes : ProcExit(j, code))

\* One job submitted with any of the request forms and left to run.
NextDetect ==
    \E j \in Fresh :
        \/ \E body \in DetectRequests : Submit(j, body)
        \/ SubmitMeta(j)
        \/ SubmitDispatch(j)
        \/ Ensure(j)
        \/ WriteStart(j)
        \/ Spawn(j, TRUE)
        \/ Produce(j, "media")
        \/ \E code \in ExitCodes : ProcExit(j, code)
        \/ Eof(j)
        \/ Find(j)
        \/ EofPlaylist(j)
        \/ PlaylistDecide(j)
        \/ Zip(j, TRUE)
        \/ WriteMeta(j)
        \/ WriteFinal(j)

SpecDetect == Init /\ [][NextDetect]_vars

\* One job of either kind, left to run, whose downloader may leave files of
\* every kind.
NextFiles ==
    \E j \in Fresh :
        \/ \E body \in Requests \cup PlaylistRequests : Submit(j, body)
        \/ SubmitMeta(j)
        \/ SubmitDispatch(j)
        \/ Ensure(j)
        \/ WriteStart(j)
        \/ Spawn(j, TRUE)
        \/ \E f \in AllOutputs : Produce(j, f)
        \/ \E code \in ExitCodes : ProcExit(j, code)
        \/ Eof(j)
        \/ Find(j)
        \/ EofPlaylist(j)
        \/ PlaylistDecide(j)
        \/ \E ok \in BOOLEAN : Zip(j, ok)
        \/ WriteMeta(j)
        \/ WriteFinal(j)

SpecFiles == Init /\ [][NextFiles]_vars

----------------------------------------------------------------------------
\* Several jobs: the orchestrator starts on the directories earlier lifetimes
\* left behind.

\* A record as a launcher leaves it at the named point of a single-video job.
JobAt(kind) ==
    LET base == [NoJob EXCEPT !.url = "watch?v=x", !.quality = "best", !.created_at = Epoch] IN
    CASE kind = "queued" -> [base EXCEPT !.status = "pending"]
      [] kind = "downloading" -> [base EXCEPT !.status = "processing", !.percent = Some(20)]
      [] kind = "complete" ->
           [base EXCEPT !.status = "completed", !.percent = Some(100), !.file_path = Some("media")]
      [] kind = "failed" ->
           [base EXCEPT !.status = "failed", !.error = Some("Download failed")]

\* The directories of the kinds of job above, as writeJobMetadata and
\* writeJobStatus leave them; "none" is no directory, "statusonly" is the
\* directory a status write re-creates after cancel has removed it, and
\* "lost" is the directory the two writes of a completion re-create after
\* cancel has removed it: the documents of a completed job, without its file.
DirOf(j, kind) ==
    CASE kind = "none" -> NoDir
      [] kind = "statusonly" -> writeJobStatus(NoDir, JobAt("failed"))
      [] kind = "lost" ->
           writeJobStatus(writeJobMetadata(NoDir, j, JobAt("complete")), JobAt("complete"))
      [] OTHER ->
           [ writeJobStatus(writeJobMetadata(NoDir, j, JobAt(kind)), JobAt(kind))
               EXCEPT !.files = CASE kind = "complete" -> {"media"}
                                  [] kind = "downloading" -> {"part"}
                                  [] OTHER -> {} ]

DirKinds == {"none", "statusonly", "queued", "downloading", "complete", "failed", "lost"}

\* main() is about to run rebuildQueueFromDisk: nothing is in memory yet.
InitStore ==
    /\ jobs = {}
    /\ obj = [j \in JobIds |-> NoJob]
    /\ \E kind \in [JobIds -> DirKinds] : disk = [j \in JobIds |-> DirOf(j, kind[j])]
    /\ proc = [j \in JobIds |-> "none"]
    /\ pc = [j \in JobIds |-> "idle"]
    /\ creq = [j \in JobIds |-> "none"]
    /\ used = JobIds
    /\ config \in Configs
    /\ resp = NoResp
    /\ cancelled = [j \in JobIds |-> "no"]
    /\ now = Epoch
    /\ lastStatusWrite = [j \in JobIds |-> 0]
    /\ sweep = config
    /\ timers = [j \in JobIds |-> {}]
    /\ spawned = [j \in JobIds |-> 0]
    /\ rateLimits = [ip \in Ips |-> <<>>]
    /\ logins = NoLogins
    /\ arrivals = 0

\* Startups over three job directories, with remove requests and rejected
\* resume requests on the recovered jobs in between.
NextStore ==
    \/ \E c \in Configs : Restart(c)
    \/ \E j \in JobIds :
          \/ ResumeReject(j)
          \/ Remove(j)

SpecStore == InitStore /\ [][NextStore]_vars

----------------------------------------------------------------------------
\* Periodic cleanup and the configuration

\* a sweep with the age test turned round
SweepVictimMut(job, t) == t - job.created_at < MaxAgeMs /\ job.status = "completed"

\* periodicCleanup's test on a job of the store: age > maxAgeMs and completed
SweepVictim(job, t) == t - job.created_at > MaxAgeMs /\ job.status = "completed"

\* The directories that belong to no job of the store js.
Orphans(d, js) == {j \in JobIds : d[j].exists /\ j \notin js}

\* an orphan pass that does not look at startup_cleanup
SweepOrphansMut(cfg, d, js) == Orphans(d, js)

\* The directories the orphan pass of periodicCleanup removes: none unless
\* startup_cleanup is on in the configuration the pass runs under.
SweepOrphans(cfg, d, js) == IF cfg.startup_cleanup THEN Orphans(d, js) ELSE {}

\* One pass of periodicCleanup, after its sleep, under the configuration it
\* loaded before the sleep: a disabled cleanup skips the pass; otherwise the
\* directory and the record of every victim are removed, and with
\* startup_cleanup on every directory that belongs to no stored job.  The
\* loop then loads the configuration again and sleeps.
SweepPass ==
    /\ IF sweep.cleanup_enabled
       THEN LET victims == {j \in jobs : SweepVictim(obj[j], now)}
                orphans == SweepOrphans(sweep, disk, jobs \ victims)
            IN  /\ jobs' = jobs \ victims
                /\ disk' = [j \in JobIds |-> IF j \in victims \cup orphans THEN NoDir ELSE disk[j]]
                /\ obj' = Collect(obj, jobs', pc, creq)
       ELSE UNCHANGED <<jobs, disk, obj>>
    /\ sweep' = config
    /\ resp' = [op |-> "sweep", id |-> "", code |-> 0]
    /\ UNCHANGED <<proc, pc, creq, used, config, cancelled, now, lastStatusWrite, timers, spawned, authVars>>

\* The admin panel saves a configuration.
ConfigChange(c) ==
    /\ c # config
    /\ config' = c
    /\ resp' = [op |-> "config", id |-> "", code |-> 200]
    /\ UNCHANGED <<jobs, obj, disk, proc, pc, creq, used, cancelled, now, lastStatusWrite, sweep, timers, spawned, authVars>>

\* The directory of a job of the given kind that was created at time t.
DirAt(j, kind, t) ==
    IF Readable(DirOf(j, kind))
    THEN [DirOf(j, kind) EXCEPT !.meta = Some([Val(@) EXCEPT !.created_at = t])]
    ELSE DirOf(j, kind)

SweepKinds == {"queued", "downloading", "complete", "failed"}

\* main() has run with purge disabled on the directories of two earlier
\* jobs, one of them created MaxAgeMs before the other, and the server
\* listens.
InitSweep ==
    /\ jobs = JobIds \ Fresh
    /\ \E kb \in SweepKinds, kc \in {"complete", "downloading"} :
          LET d == [j \in JobIds |->
                      CASE j = "b" -> DirAt(j, kb, Epoch - MaxAgeMs)
                        [] j = "c" -> DirAt(j, kc, Epoch)
                        [] OTHER -> NoDir]
              o == [j \in JobIds |-> IF Readable(d[j]) THEN Recovered(d[j]) ELSE NoJob]
          IN  /\ obj = o
              /\ disk = [j \in JobIds |->
                            IF Readable(d[j])
                            THEN writeJobStatus(writeJobMetadata(d[j], j, o[j]), o[j])
                            ELSE d[j]]
    /\ proc = [j \in JobIds |-> "none"]
    /\ pc = [j \in JobIds |-> "idle"]
    /\ creq = [j \in JobIds |-> "none"]
    /\ used = JobIds \ Fresh
    /\ config \in AllConfigs
    /\ resp = NoResp
    /\ cancelled = [j \in JobIds |-> "no"]
    /\ now = Epoch
    /\ lastStatusWrite = [j \in JobIds |-> IF j \in Fresh THEN 0 ELSE Epoch]
    /\ sweep = config
    /\ timers = [j \in JobIds |-> {}]
    /\ spawned = [j \in JobIds |-> 0]
    /\ rateLimits = [ip \in Ips |-> <<>>]
    /\ logins = NoLogins
    /\ arrivals = 0

\* After startup: one new job of either kind running to its end while time
\* passes, cleanup is switched off and on in the configuration, and
\* periodicCleanup makes its passes.
NextSweep ==
    \/ Tick
    \/ SweepPass
    \/ \E c \in AllConfigs : c.startup_cleanup = config.startup_cleanup /\ ConfigChange(c)
    \/ \E j \in Fresh :
          \/ \E body \in Requests \cup PlaylistRequests : Submit(j, body)
          \/ SubmitMeta(j)
          \/ SubmitDispatch(j)
          \/ Ensure(j)
          \/ WriteStart(j)
          \/ Spawn(j, TRUE)
          \/ Produce(j, "media")
          \/ ProcExit(j, 0)
          \/ Eof(j)
          \/ Find(j)
          \/ EofPlaylist(j)
          \/ PlaylistDecide(j)
          \/ Zip(j, TRUE)
          \/ WriteMeta(j)
          \/ WriteFinal(j)

SpecSweep == InitSweep /\ [][NextSweep]_vars

----------------------------------------------------------------------------
\* GET /download/:jobId, GET /download/playlist/:jobId, and cleanupJobFiles

\* The job's artifact can be sent: the job is stored and completed, and its
\* recorded file exists or (single video only) the directory holds another
\* media file.
Servable(j) ==
    /\ j \in jobs
    /\ obj[j].status = "completed"
    /\ \/ IsSet(obj[j].file_path) /\ exists(disk[j], Val(obj[j].file_path))
       \/ ~obj[j].playlist /\ IsSet(findMediaFileForJob(disk[j]))

\* a request the route answers with 404: nothing is sent, nothing scheduled
DownloadReject(j) ==
    /\ ~Servable(j)
    /\ resp' = [op |-> "download", id |-> j, code |-> 404]
    /\ UNCHANGED <<jobs, obj, disk, proc, pc, creq, used, config, cancelled>>
    /\ UNCHANGED <<now, lastStatusWrite, sweep, timers, spawned, authVars>>

\* The artifact is sent (a missing recorded file is first replaced by the
\* media file found, and the metadata written); then cleanupJobFiles is
\* called, not awaited: it loads the configuration, returns if cleanup is
\* disabled, and otherwise sets a timeout of cleanup_max_age.  Timeouts of one
\* job that are due at the same time are one element of timers.
Download(j) ==
    /\ Servable(j)
    /\ IF IsSet(obj[j].file_path) /\ exists(disk[j], Val(obj[j].file_path))
       THEN UNCHANGED <<obj, disk>>
       ELSE /\ obj' = [obj EXCEPT ![j].file_path = findMediaFileForJob(disk[j])]
            /\ disk' = [disk EXCEPT ![j] = writeJobMetadata(@, j, obj'[j])]
    /\ timers' = IF config.cleanup_enabled
                 THEN [timers EXCEPT ![j] = @ \cup {now + MaxAgeMs}]
                 ELSE timers
    /\ resp' = [op |-> "download", id |-> j, code |-> 200]
    /\ UNCHANGED <<jobs, proc, pc, creq, used, config, cancelled, now, lastStatusWrite, sweep,
                   spawned, authVars>>

\* a deferred cleanup that removes the job whatever its status
DeferredVictimMut(j, js, o) == j \in js

\* cleanupJobFiles after its timeout: job && job.status === "completed"
DeferredVictim(j, js, o) == j \in js /\ o[j].status = "completed"

\* The timeout of a cleanupJobFiles call for job j, due at time t, fires: the
\* directory and the record of a job that is stored and completed are removed.
DeferredCleanup(j, t) ==
    /\ t \in timers[j]
    /\ t <= now
    /\ timers' = [timers EXCEPT ![j] = @ \ {t}]
    /\ IF DeferredVictim(j, jobs, obj)
       THEN /\ disk' = [disk EXCEPT ![j] = NoDir]
            /\ jobs' = jobs \ {j}
            /\ obj' = Collect(obj, jobs', pc, creq)
       ELSE UNCHANGED <<jobs, obj, disk>>
    /\ resp' = [op |-> "deferred", id |-> j, code |-> 0]
    /\ UNCHANGED <<proc, pc, creq, used, config, cancelled, now, lastStatusWrite, sweep,
                   spawned, authVars>>

\* The times a timeout can be due at.
DueTimes == {Epoch + k * TickMs + MaxAgeMs : k \in 0..((MaxNow - Epoch) \div TickMs)}

----------------------------------------------------------------------------
\* POST /admin/cleanup-now, for an authenticated session with a valid CSRF token

\* a manual sweep that takes completed jobs only
ManualVictimMut(job) == job.status = "completed"

\* job.status === "completed" || job.status === "failed"
ManualVictim(job) == job.status \in {"completed", "failed"}

\* The record of every completed or failed job is deleted, and its directory
\* if there is one; then every directory that belongs to no stored job is
\* removed; the response carries the number of deleted records plus removed
\* directories of the second loop.  The configuration is not read.
CleanupNow ==
    LET victims == {j \in jobs : ManualVictim(obj[j])}
        d == [j \in JobIds |-> IF j \in victims THEN NoDir ELSE disk[j]]
        orphans == Orphans(d, jobs \ victims)
    IN  /\ jobs' = jobs \ victims
        /\ disk' = [j \in JobIds |-> IF j \in orphans THEN NoDir ELSE d[j]]
        /\ obj' = Collect(obj, jobs', pc, creq)
        /\ resp' = [op |-> "cleanup", id |-> "", code |-> 200,
                    removed |-> Cardinality(victims) + Cardinality(orphans)]
        /\ UNCHANGED <<proc, pc, creq, used, config, cancelled>>
        /\ UNCHANGED <<now, lastStatusWrite, sweep, timers, spawned, authVars>>

\* main() has run with purge disabled on the directories of two earlier
\* jobs: b was loaded; c was loaded as interrupted, or holds a status
\* document only and was not loaded.
InitManual ==
    /\ \E kb \in SweepKinds, kc \in {"downloading", "statusonly"} :
          LET d == [j \in JobIds |->
                      CASE j = "b" -> DirOf(j, kb)
                        [] j = "c" -> DirOf(j, kc)
                        [] OTHER -> NoDir]
              o == [j \in JobIds |-> IF Readable(d[j]) THEN Recovered(d[j]) ELSE NoJob]
          IN  /\ jobs = {j \in JobIds : Readable(d[j])}
              /\ obj = o
              /\ disk = [j \in JobIds |->
                            IF Readable(d[j])
                            THEN writeJobStatus(writeJobMetadata(d[j], j, o[j]), o[j])
                            ELSE d[j]]
              /\ lastStatusWrite = [j \in JobIds |-> IF Readable(d[j]) THEN Epoch ELSE 0]
    /\ proc = [j \in JobIds |-> "none"]
    /\ pc = [j \in JobIds |-> "idle"]
    /\ creq = [j \in JobIds |-> "none"]
    /\ used = JobIds \ Fresh
    /\ config \in {c \in AllConfigs : ~c.startup_cleanup}
    /\ resp = NoResp
    /\ cancelled = [j \in JobIds |-> "no"]
    /\ now = Epoch
    /\ sweep = config
    /\ timers = [j \in JobIds |-> {}]
    /\ spawned = [j \in JobIds |-> 0]
    /\ rateLimits = [ip \in Ips |-> <<>>]
    /\ logins = NoLogins
    /\ arrivals = 0

\* The operator's sweep at any moment of the life of one new job of either
\* kind.
NextManual ==
    \/ CleanupNow
    \/ \E j \in Fresh :
          \/ \E body \in Requests \cup PlaylistRequests : Submit(j, body)
          \/ SubmitMeta(j)
          \/ SubmitDispatch(j)
          \/ Ensure(j)
          \/ WriteStart(j)
          \/ Spawn(j, TRUE)
          \/ Produce(j, "media")
          \/ \E code \in ExitCodes : ProcExit(j, code)
          \/ Eof(j)
          \/ Find(j)
          \/ EofPlaylist(j)
          \/ PlaylistDecide(j)
          \/ Zip(j, TRUE)
          \/ WriteMeta(j)
          \/ WriteFinal(j)

SpecManual == InitManual /\ [][NextManual]_vars

----------------------------------------------------------------------------
\* Dispatch: the jobs of one lifetime of the orchestrator.

\* The jobs followed in one lifetime: a job submitted in it, or a job that
\* startup recovery loaded.
Served == {"a", "b"}

\* main() has run with purge disabled.  Either the downloads directory was
\* empty and one id is still to be given out, or it held the directory of one
\* earlier job b, stored as queued or as downloading, which was loaded.
InitQueue ==
    /\ \E kb \in {"none", "queued", "downloading"} :
          LET d == [j \in JobIds |-> IF j = "b" THEN DirOf(j, kb) ELSE NoDir]
              o == [j \in JobIds |-> IF Readable(d[j]) THEN Recovered(d[j]) ELSE NoJob]
          IN  /\ jobs = {j \in JobIds : Readable(d[j])}
              /\ obj = o
              /\ disk = [j \in JobIds |->
                            IF Readable(d[j])
                            THEN writeJobStatus(writeJobMetadata(d[j], j, o[j]), o[j])
                            ELSE d[j]]
              /\ lastStatusWrite = [j \in JobIds |-> IF Readable(d[j]) THEN Epoch ELSE 0]
              /\ used = IF kb = "none" THEN JobIds \ Fresh ELSE JobIds
    /\ proc = [j \in JobIds |-> "none"]
    /\ pc = [j \in JobIds |-> "idle"]
    /\ creq = [j \in JobIds |-> "none"]
    /\ config \in {c \in Configs : ~c.startup_cleanup}
    /\ resp = NoResp
    /\ cancelled = [j \in JobIds |-> "no"]
    /\ now = Epoch
    /\ sweep = config
    /\ timers = [j \in JobIds |-> {}]
    /\ spawned = [j \in JobIds |-> 0]
    /\ rateLimits = [ip \in Ips |-> <<>>]
    /\ logins = NoLogins
    /\ arrivals = 0

\* Submit, resume, cancel and remove requests at any moment, and the
\* launcher of the job they dispatch.
NextQueue ==
    \E j \in Served :
        \/ \E body \in Requests : Submit(j, body)
        \/ SubmitMeta(j)
        \/ SubmitDispatch(j)
        \/ ResumeReject(j)
        \/ Resume(j)
        \/ ResumeDispatch(j)
        \/ Ensure(j)
        \/ WriteStart(j)
        \/ \E ok \in BOOLEAN : Spawn(j, ok)
        \/ \E f \in Outputs : Produce(j, f)
        \/ \E code \in ExitCodes : ProcExit(j, code)
        \/ Eof(j)
        \/ Find(j)
        \/ WriteMeta(j)
        \/ WriteFinal(j)
        \/ CancelBegin(j)
        \/ CancelWrite(j)
        \/ CancelRemove(j)
        \/ Remove(j)

\* The continuation of the handler that is about to dispatch the launcher,
\* after the write it awaits.
DispatchStep(j) == SubmitMeta(j) \/ SubmitDispatch(j) \/ ResumeDispatch(j)

\* Every settled await of a handler and of the launcher is continued, and a
\* spawned process exits; no request has to arrive.
SpecQueue ==
    /\ InitQueue /\ [][NextQueue]_vars
    /\ \A j \in Served : WF_vars(DispatchStep(j))
    /\ \A j \in Served : WF_vars(LauncherStep(j))
    /\ \A j \in Served : WF_vars(\E code \in ExitCodes : ProcExit(j, code))

----------------------------------------------------------------------------
\* The cleanup scheduler over a recovered store.

\* main() has run with purge disabled on three directories: a holds a status
\* document only and was not loaded, b and c were loaded, b created MaxAgeMs
\* before c; periodicCleanup has loaded the configuration and sleeps.
InitCleanup ==
    /\ jobs = JobIds \ Fresh
    /\ \E kb \in SweepKinds, kc \in {"complete", "downloading"} :
          LET d == [j \in JobIds |->
                      CASE j = "b" -> DirAt(j, kb, Epoch - MaxAgeMs)
                        [] j = "c" -> DirAt(j, kc, Epoch)
                        [] OTHER -> DirOf(j, "statusonly")]
              o == [j \in JobIds |-> IF Readable(d[j]) THEN Recovered(d[j]) ELSE NoJob]
          IN  /\ obj = o
              /\ disk = [j \in JobIds |->
                            IF Readable(d[j])
                            THEN writeJobStatus(writeJobMetadata(d[j], j, o[j]), o[j])
                            ELSE d[j]]
    /\ proc = [j \in JobIds |-> "none"]
    /\ pc = [j \in JobIds |-> "idle"]
    /\ creq = [j \in JobIds |-> "none"]
    /\ used = JobIds
    /\ config \in {c \in AllConfigs : ~c.startup_cleanup}
    /\ resp = NoResp
    /\ cancelled = [j \in JobIds |-> "no"]
    /\ now = Epoch
    /\ lastStatusWrite = [j \in JobIds |-> IF j \in Fresh THEN 0 ELSE Epoch]
    /\ sweep = config
    /\ timers = [j \in JobIds |-> {}]
    /\ spawned = [j \in JobIds |-> 0]
    /\ rateLimits = [ip \in Ips |-> <<>>]
    /\ logins = NoLogins
    /\ arrivals = 0

\* Time passes, the configuration is edited, and the scheduler runs.
NextCleanup ==
    \/ Tick
    \/ SweepPass
    \/ \E c \in AllConfigs : ConfigChange(c)

SpecCleanup == InitCleanup /\ [][NextCleanup]_vars

\* The scheduler left to itself: no request arrives; time passes, and the
\* loop of periodicCleanup wakes up again and again (its setTimeout always
\* fires), so both are weakly fair.
NextFair == Tick \/ SweepPass

SpecFair == InitCleanup /\ [][NextFair]_vars /\ WF_vars(Tick) /\ WF_vars(SweepPass)

\* Downloads of the recovered jobs' artifacts and the deletions they
\* schedule, while time passes, cleanup is switched off and on, the periodic
\* pass runs, and the younger job is cancelled.  A job has at most
\* MaxTimers deletions pending.
NextDeferred ==
    \/ Tick
    \/ SweepPass
    \/ \E c \in AllConfigs : c.startup_cleanup = config.startup_cleanup /\ ConfigChange(c)
    \/ \E j \in JobIds \ Fresh :
          \/ DownloadReject(j)
          \/ Cardinality(timers[j]) < MaxTimers /\ Download(j)
          \/ \E t \in DueTimes : DeferredCleanup(j, t)
    \/ CancelBegin("c")
    \/ CancelWrite("c")
    \/ CancelRemove("c")

SpecDeferred == InitCleanup /\ [][NextDeferred]_vars

----------------------------------------------------------------------------
\* The status writes of a playlist job against the clock.
NextThrottle ==
    \/ Tick
    \/ \E j \in Fresh :
          \/ \E body \in PlaylistRequests : Submit(j, body)
          \/ SubmitMeta(j)
          \/ SubmitDispatch(j)
          \/ Ensure(j)
          \/ WriteStart(j)
          \/ \E ok \in BOOLEAN : Spawn(j, ok)
          \/ Produce(j, "media")
          \/ \E code \in ExitCodes : ProcExit(j, code)
          \/ \E p \in ProgressValues : TimedProgressLine(j, p)
          \/ \E n \in 1..MaxTracks : BoundaryLine(j, n, MaxTracks)
          \/ PlaylistNameLine(j, "PL")
          \/ EofPlaylist(j)
          \/ PlaylistDecide(j)
          \/ \E ok \in BOOLEAN : Zip(j, ok)
          \/ WriteMeta(j)
          \/ WriteFinal(j)

SpecThrottle == Init /\ [][NextThrottle]_vars

----------------------------------------------------------------------------
\* POST /auth/login and the rate limiter of the authentication module

\* What the login route leaves alone: the job store and everything around it.
jobVars == <<jobs, obj, disk, proc, pc, creq, used, config, cancelled, lastStatusWrite, sweep,
             timers, spawned>>

\* a filter that also keeps the attempts that are exactly one window old
CleanOldMut(attempts, t) == SelectSeq(attempts, LAMBDA ts : t - ts <= RateLimitWindow)

\* "Clean old attempts": attempts.filter(ts => now - ts < RATE_LIMIT_WINDOW)
CleanOld(attempts, t) == SelectSeq(attempts, LAMBDA ts : t - ts < RateLimitWindow)

\* limitData.attempts.length >= MAX_LOGIN_ATTEMPTS
RateLimited(attempts) == Len(attempts) >= MAX_LOGIN_ATTEMPTS

\* checkRateLimit(identifier) at time t: true lets the request through
checkRateLimit(attempts, t) == ~RateLimited(CleanOld(attempts, t))

\* A login request with a password arrives from ip (ok: the password is the
\* right one).  checkRateLimit drops the old attempts of the IP's entry; a
\* limited IP is answered 429, otherwise login() is awaited.
LoginArrive(ip, ok) ==
    /\ arrivals < MaxLogins
    /\ arrivals' = arrivals + 1
    /\ rateLimits' = [rateLimits EXCEPT ![ip] = CleanOld(@, now)]
    /\ IF checkRateLimit(rateLimits[ip], now)
       THEN /\ logins[ip].good + logins[ip].bad < MaxInFlight
            /\ logins' = [logins EXCEPT ![ip] = IF ok THEN [@ EXCEPT !.good = @ + 1]
                                                      ELSE [@ EXCEPT !.bad = @ + 1]]
            /\ resp' = [op |-> "login", id |-> ip, code |-> 0]
       ELSE /\ UNCHANGED logins
            /\ resp' = [op |-> "login", id |-> ip, code |-> 429]
    /\ UNCHANGED <<jobVars, now>>

\* login() has resolved: success deletes the IP's entry (clearFailedAttempts),
\* failure pushes Date.now() onto its attempts (recordFailedAttempt); the
\* response carries the result with status 200.
LoginFinish(ip, ok) ==
    /\ IF ok THEN logins[ip].good > 0 ELSE logins[ip].bad > 0
    /\ logins' = [logins EXCEPT ![ip] = IF ok THEN [@ EXCEPT !.good = @ - 1]
                                              ELSE [@ EXCEPT !.bad = @ - 1]]
    /\ rateLimits' = [rateLimits EXCEPT ![ip] = IF ok THEN <<>> ELSE Append(@, now)]
    /\ resp' = [op |-> "login", id |-> ip, code |-> 200, success |-> ok]
    /\ UNCHANGED <<jobVars, now, arrivals>>

\* Login requests from the addresses, at any time.
NextAuth ==
    \/ Tick
    \/ \E ip \in Ips, ok \in BOOLEAN : LoginArrive(ip, ok)
    \/ \E ip \in Ips, ok \in BOOLEAN : LoginFinish(ip, ok)

\* The orchestrator has started; no job is followed.
InitAuth == Init /\ ~config.startup_cleanup

SpecAuth == InitAuth /\ [][NextAuth]_vars

\* ---------------------------------------------------------------------
\* Properties
\* ---------------------------------------------------------------------

\* C1: once a cancel request on an active job (processing or playlist, with
\* a live process) has returned and the launcher's callback has run to its
\* end, the job is failed, its error is exactly "Cancelled by user", and
\* its directory does not exist.
C1_CancelActiveIsFinal ==
    \A j \in jobs :
        (cancelled[j] = "active" /\ creq[j] = "none" /\ pc[j] = "idle")
            => /\ obj[j].status = "failed"
               /\ obj[j].error = Some("Cancelled by user")
               /\ ~disk[j].exists

\* The resume handler answered job j with the given code in this step.
Answered(op, j, code) == resp' = [op |-> op, id |-> j, code |-> code]

\* C2: a resume request is accepted only for an interrupted job; a
\* rejected resume request leaves the record, the documents on disk and
\* the processes as they were.
C2_ResumeOnlyInterrupted ==
    [][\A j \in JobIds :
          /\ (pc[j] # "resume" /\ pc'[j] = "resume") => obj[j].status = "interrupted"
          /\ Answered("resume", j, 200) => pc[j] = "resume"
          /\ (resp'.op = "resume" /\ resp'.id = j /\ resp'.code # 200)
                => UNCHANGED <<jobs, obj, disk, proc, pc, creq>>]_vars

\* a resume request on a stored job that is failed was rejected
C2_Witness ==
    \E j \in jobs : resp = [op |-> "resume", id |-> j, code |-> 400]
                    /\ obj[j].status = "failed"

\* a resume request on an interrupted job has been accepted and dispatched
C2_WitnessAccepted ==
    \E j \in jobs : resp = [op |-> "resume", id |-> j, code |-> 200]

\* The statuses on which a cancel request is said to do nothing.
Settled(job) ==
    \/ job.status \in {"completed", "failed", "interrupted"}
    \/ (job.status = "pending" /\ ~job.process)

\* C3: a cancel request on a job that is completed, failed, interrupted,
\* or pending without a process does not change the job's status or error
\* (and does not delete its directory).
C3_CancelSettledIsNoop ==
    [][\A j \in JobIds :
          (j \in jobs /\ Settled(obj[j]) /\ creq[j] = "none" /\ creq'[j] # "none")
              => /\ obj'[j].status = obj[j].status
                 /\ obj'[j].error = obj[j].error]_vars

\* C4: a remove request on a pending, processing or playlist job is
\* rejected, and the record, the directory and the process stay in place.
C4_RemoveOnlyTerminal ==
    [][\A j \in JobIds :
          (/\ j \in jobs
           /\ obj[j].status \in {"pending", "processing", "playlist"}
           /\ resp'.op = "remove" /\ resp'.id = j)
              => /\ resp'.code # 200
                 /\ j \in jobs'
                 /\ disk'[j] = disk[j]
                 /\ proc'[j] = proc[j]
                 /\ obj'[j] = obj[j]]_vars

\* C5: completed and failed are absorbing: while a job is in the store its
\* status, once completed or failed, never changes within one run of the
\* server.
C5_TerminalAbsorbing ==
    [][\A j \in JobIds :
          (/\ j \in jobs /\ j \in jobs'
           /\ obj[j].status \in {"completed", "failed"}
           /\ resp'.op # "startup")
              => obj'[j].status = obj[j].status]_vars

\* C6: a job holds a process handle exactly when its status is processing
\* or playlist.
C6_ProcessIffActive ==
    \A j \in jobs : obj[j].process <=> obj[j].status \in {"processing", "playlist"}

\* C7: the in-memory percent of a job, when set, lies between 0 and 100.
C7_PercentInRange ==
    \A j \in jobs :
        IsSet(obj[j].percent) => (Val(obj[j].percent) >= 0 /\ Val(obj[j].percent) <= 100)

\* C8: while a job is downloading, each progress value written to its
\* status document is at least the one written before.
C8_ProgressNeverRegresses ==
    [][\A j \in JobIds :
          (/\ IsSet(disk[j].status) /\ IsSet(disk'[j].status)
           /\ Val(disk[j].status).status = "downloading"
           /\ Val(disk'[j].status).status = "downloading")
              => Val(disk'[j].status).progress >= Val(disk[j].status).progress]_vars

\* The record rebuildQueueFromDisk loads from a directory holding the two
\* documents writeJobMetadata and writeJobStatus(force) write for a job.
RoundTrip(j, job) == Recovered(writeJobStatus(writeJobMetadata(NoDir, j, job), job))

\* The id that record is stored under.
RoundTripId(j, job) == LoadId(j, writeJobStatus(writeJobMetadata(NoDir, j, job), job))

\* C9 as stated: writing a record's metadata and status and rebuilding the
\* store from them (purge disabled) yields a record with the same id, url,
\* format_type, quality, playlist, playlist_title, total_videos,
\* current_video, video_titles and skipped_videos.
C9_RoundTripExact ==
    \A j \in jobs :
        LET o == obj[j]
            r == RoundTrip(j, o)
        IN  /\ RoundTripId(j, o) = j
            /\ r.url = o.url
            /\ r.format_type = o.format_type
            /\ r.quality = o.quality
            /\ r.playlist = o.playlist
            /\ r.playlist_title = o.playlist_title
            /\ r.total_videos = o.total_videos
            /\ r.current_video = o.current_video
            /\ r.video_titles = o.video_titles
            /\ r.skipped_videos = o.skipped_videos

\* C9: the round trip keeps id, url, format_type, quality, playlist and
\* playlist_title; total_videos, current_video, video_titles and
\* skipped_videos come back as they were where the record had them set, and
\* as 0, 0, the empty list and the empty list where it had them unset.
C9_RoundTripUpToDefaults ==
    \A j \in jobs :
        LET o == obj[j]
            r == RoundTrip(j, o)
        IN  /\ RoundTripId(j, o) = j
            /\ r.url = o.url
            /\ r.format_type = o.format_type
            /\ r.quality = o.quality
            /\ r.playlist = o.playlist
            /\ r.playlist_title = o.playlist_title
            /\ r.total_videos = Some(OrElse(o.total_videos, 0))
            /\ r.current_video = Some(OrElse(o.current_video, 0))
            /\ r.video_titles = Some(OrElse(o.video_titles, <<>>))
            /\ r.skipped_videos = Some(OrElse(o.skipped_videos, <<>>))

\* a startup with purge disabled has just reloaded a playlist job on its
\* first track of two, with a playlist title, a track title and a skipped
\* track recorded
C9_Witness ==
    \E j \in jobs :
        /\ resp.op = "startup" /\ ~config.startup_cleanup
        /\ obj[j].playlist
        /\ obj[j].total_videos = Some(2)
        /\ obj[j].current_video = Some(1)
        /\ IsSet(obj[j].playlist_title)
        /\ IsSet(obj[j].video_titles) /\ Val(obj[j].video_titles) # <<>>
        /\ IsSet(obj[j].skipped_videos) /\ Val(obj[j].skipped_videos) # <<>>

\* The directories a startup can load a job from.
ReadableDirs == {j \in JobIds : Readable(disk[j])}

\* C10: a startup with purge disabled loads a stored "downloading" as
\* interrupted and a stored "complete" whose file exists as completed, and
\* loads exactly as many jobs as there are readable job directories.
C10_Recovery ==
    [][(resp'.op = "startup" /\ ~config'.startup_cleanup)
          => /\ \A j \in ReadableDirs :
                    StoredOf(disk[j]).status = "downloading"
                        => (j \in jobs' /\ obj'[j].status = "interrupted")
             /\ \A j \in ReadableDirs :
                    (/\ StoredOf(disk[j]).status = "complete"
                     /\ Val(disk[j].meta).file_path # ""
                     /\ exists(disk[j], Val(disk[j].meta).file_path))
                        => (j \in jobs' /\ obj'[j].status = "completed")
             /\ Cardinality(jobs') = Cardinality(ReadableDirs)]_vars

\* a startup with purge disabled has just loaded two completed jobs and an
\* interrupted one
C10_Witness ==
    /\ resp.op = "startup" /\ ~config.startup_cleanup
    /\ Cardinality({j \in jobs : obj[j].status = "completed"}) = 2
    /\ Cardinality({j \in jobs : obj[j].status = "interrupted"}) = 1

\* The number of well-formed output files downloadPlaylist counted for job j
\* is at least one, and its process exited with a non-zero code.
PartialPlaylist(j) ==
    /\ obj[j].playlist
    /\ proc[j] = "exit1"
    /\ IsSet(obj[j].total_videos) /\ Val(obj[j].total_videos) >= 1

\* C11 as stated: a playlist job whose process exits non-zero but leaves at
\* least one well-formed output file ends completed, never failed.
C11_PartialPlaylistCompletes ==
    [][\A j \in JobIds :
          (PartialPlaylist(j) /\ pc[j] \in {"pmeta", "zip"} /\ pc'[j] \in {"wfail", "wmeta"})
              => obj'[j].status = "completed"]_vars

\* C11: a playlist job whose process exits non-zero but leaves at least one
\* well-formed output file is not failed for its exit code: it goes on to the
\* archive step, and from there it is completed with the archive as its file,
\* or failed with the error "Failed to create ZIP archive".
C11_PartialPlaylistArchives ==
    [][\A j \in JobIds :
          PartialPlaylist(j) =>
              /\ (pc[j] = "pmeta" /\ pc'[j] \notin {"pmeta", "idle"})
                    => (pc'[j] = "zip" /\ obj'[j].status = "playlist")
              /\ (pc[j] = "zip" /\ pc'[j] \notin {"zip", "idle"})
                    => \/ /\ obj'[j].status = "completed"
                          /\ obj'[j].file_path = Some("zip")
                          /\ exists(disk'[j], "zip")
                       \/ /\ obj'[j].status = "failed"
                          /\ obj'[j].error = Some("Failed to create ZIP archive")]_vars

\* a playlist job whose process exited non-zero with files left has been
\* archived and completed
C11_Witness ==
    \E j \in jobs : PartialPlaylist(j) /\ pc[j] = "wdone" /\ obj[j].status = "completed"

\* C12: a playlist job with no well-formed output file after the exit is
\* failed whatever the exit code, and the archive step is never entered.
C12_EmptyPlaylistFails ==
    [][\A j \in JobIds :
          (/\ obj[j].playlist /\ pc[j] = "pmeta"
           /\ obj[j].total_videos = Some(0)
           /\ pc'[j] \notin {"pmeta", "idle"})
              => /\ obj'[j].status = "failed"
                 /\ pc'[j] = "wfail"
                 /\ obj'[j].error = Some(NoFilesError(ExitCode(proc[j])))
                 /\ disk'[j].files = disk[j].files]_vars

\* a playlist job whose process exited with code 0 and left no file has been
\* failed
C12_Witness ==
    \E j \in jobs :
        /\ obj[j].playlist /\ pc[j] = "wfail" /\ proc[j] = "exit0"
        /\ obj[j].total_videos = Some(0)
        /\ obj[j].status = "failed"
        /\ obj[j].error = Some("No files downloaded from playlist")

\* A single-video job that no cancel request has touched, in a step of one
\* lifetime of the orchestrator.
Undisturbed(j) ==
    /\ ~obj[j].playlist
    /\ obj[j].status # "none"
    /\ cancelled'[j] = "no"
    /\ resp'.op # "startup"

\* The status changes downloadVideo makes to a submitted job.
SingleSteps ==
    { <<"pending", "processing">>, <<"processing", "completed">>, <<"processing", "failed">> }

\* C13: a single-video job that is submitted and never cancelled changes
\* status only from pending to processing and from processing to completed
\* or failed (never to playlist); an exit with code 0 leads to the search
\* for the output file, and when that search has a candidate file the job
\* becomes completed with percent 100 and file_path a candidate file.
C13_SingleJobCompletes ==
    [][\A j \in JobIds :
          Undisturbed(j) =>
              /\ (obj'[j].status \notin {obj[j].status, "none"} /\ obj[j].status # "interrupted")
                    => <<obj[j].status, obj'[j].status>> \in SingleSteps
              /\ (pc[j] = "read" /\ proc[j] = "exit0" /\ pc'[j] # "read")
                    => (pc'[j] = "find" /\ obj'[j].status = "processing")
              /\ (pc[j] = "find" /\ pc'[j] # "find" /\ Candidates(disk[j]) # {})
                    => /\ obj'[j].status = "completed"
                       /\ obj'[j].percent = Some(100)
                       /\ IsSet(obj'[j].file_path)
                       /\ Val(obj'[j].file_path) \in Candidates(disk[j])]_vars

\* a single-video job that was never cancelled has been completed, with a
\* partial file next to its output file
C13_Witness ==
    \E j \in jobs :
        /\ ~obj[j].playlist /\ cancelled[j] = "no" /\ pc[j] = "wmeta"
        /\ obj[j].status = "completed" /\ obj[j].percent = Some(100)
        /\ obj[j].file_path = Some("media")
        /\ "part" \in disk[j].files

\* C14: a single-video job with a candidate file in its directory when the
\* process has exited is not failed, even when the exit code is non-zero.
C14_SingleExitCodeIgnored ==
    [][\A j \in JobIds :
          (/\ Undisturbed(j)
           /\ pc[j] = "read" /\ proc[j] = "exit1"
           /\ Candidates(disk[j]) # {}
           /\ pc'[j] # "read")
              => obj'[j].status # "failed"]_vars

\* C15: a startup with purge enabled leaves the store empty and no job
\* directory on disk, whatever the directories held.
C15_PurgeOnStartup ==
    [][(resp'.op = "startup" /\ config'.startup_cleanup)
          => (jobs' = {} /\ \A j \in JobIds : ~disk'[j].exists)]_vars

\* a startup with purge enabled has just run: nothing is stored, no directory
\* is left
C15_Witness ==
    /\ resp.op = "startup" /\ config.startup_cleanup
    /\ jobs = {}
    /\ disk = [j \in JobIds |-> NoDir]

\* A directory whose documents say complete while neither the recorded file
\* nor any other media file is in it.
OutputMissing(d) ==
    /\ Readable(d)
    /\ StoredOf(d).status = "complete"
    /\ ~exists(d, Val(d.meta).file_path)
    /\ Candidates(d) = {}

\* C16: a startup with purge disabled loads a job stored as complete whose
\* file is missing, with no media file found in its directory, as failed with
\* error "Output file missing after restart", and loads every other readable
\* job directory too.
C16_MissingOutputDowngraded ==
    [][(resp'.op = "startup" /\ ~config'.startup_cleanup)
          => /\ \A j \in JobIds :
                    OutputMissing(disk[j])
                        => /\ j \in jobs'
                           /\ obj'[j].status = "failed"
                           /\ obj'[j].error = Some("Output file missing after restart")
             /\ \A k \in JobIds : Readable(disk[k]) => k \in jobs']_vars

\* a startup has just downgraded one job for its missing file and loaded a
\* completed and an interrupted job beside it
C16_Witness ==
    /\ resp.op = "startup" /\ ~config.startup_cleanup
    /\ \E j, k, l \in jobs :
          /\ obj[j].status = "failed"
          /\ obj[j].error = Some("Output file missing after restart")
          /\ obj[k].status = "completed"
          /\ obj[l].status = "interrupted"

\* Job j stays in its reader loop over this step.
Reading(j) == obj[j].playlist /\ pc[j] = "read" /\ pc'[j] = "read"

\* The step processes a track-boundary line of job j that changes a counter.
BoundaryStep(j) ==
    /\ Reading(j)
    /\ \/ obj'[j].current_video # obj[j].current_video
       \/ obj'[j].total_videos # obj[j].total_videos

\* C17: a track-boundary line sets current_video and total_videos to its
\* numbers, percent to 0 and current_title to the empty string; after it,
\* percent and current_title change only by a progress line (percent) or a
\* destination line (title).
C17_BoundaryResets ==
    [][\A j \in JobIds :
          /\ BoundaryStep(j)
                => /\ Val(obj'[j].current_video) \in 1..MaxTracks
                   /\ obj'[j].total_videos = Some(MaxTracks)
                   /\ obj'[j].percent = Some(0)
                   /\ obj'[j].current_title = Some("")
          /\ (Reading(j) /\ obj[j].percent = Some(0) /\ obj[j].current_title = Some(""))
                => \/ /\ obj'[j].percent = obj[j].percent
                      /\ obj'[j].current_title = obj[j].current_title
                   \/ /\ obj'[j].percent \in {Some(p) : p \in ProgressValues}
                      /\ obj'[j].current_title = obj[j].current_title
                   \/ /\ obj'[j].percent = obj[j].percent
                      /\ obj'[j].current_title \in {Some(t) : t \in Titles}]_vars

\* the second track of a playlist has just begun: a title was recorded
\* earlier, and the title and the progress are cleared, on disk too
C17_Witness ==
    \E j \in jobs :
        /\ pc[j] = "read"
        /\ obj[j].current_video = Some(2)
        /\ obj[j].percent = Some(0) /\ obj[j].current_title = Some("")
        /\ Val(obj[j].video_titles) # <<>>
        /\ disk[j].status = Some([status |-> "downloading", progress |-> 0])

\* The status document of job j after the step is the job's status and
\* progress after the step, written at the present time.
StatusWritten(j) ==
    /\ disk'[j].status = Some(StatusDoc(obj'[j]))
    /\ lastStatusWrite'[j] = now

\* A job that is completed or failed and whose launcher has returned has its
\* status on disk.
TerminalPersisted(j) ==
    (j \in jobs /\ obj[j].status \in {"completed", "failed"} /\ pc[j] = "idle")
        => disk[j].status = Some(StatusDoc(obj[j]))

\* The step processes a playlist-name line of job j.
NameStep(j) == Reading(j) /\ obj'[j].playlist_title # obj[j].playlist_title

\* The forced writes: a track-boundary line writes the status document
\* whatever the time of the last write, and so does the end of a launcher
\* that completed or failed the job.
ForcedWrites(j) ==
    /\ BoundaryStep(j) => StatusWritten(j)
    /\ (pc[j] \in {"wfail", "wdone"} /\ pc'[j] = "idle") => StatusWritten(j)
    /\ TerminalPersisted(j)'

\* C18 as stated: every track-boundary line, every playlist-name line and
\* every transition to completed or failed writes the status document,
\* however recent the last status write.
C18_MilestonesForceStatus ==
    [][\A j \in JobIds : ForcedWrites(j) /\ (NameStep(j) => StatusWritten(j))]_vars

\* C18: every track-boundary line and every transition to completed or
\* failed writes the status document, however recent the last status write;
\* a playlist-name line writes the metadata document (never throttled) and
\* leaves the status document and the throttle window alone.
C18_MilestonesForced ==
    [][\A j \in JobIds :
          /\ ForcedWrites(j)
          /\ NameStep(j) => /\ disk'[j].meta = Some(MetaDoc(j, obj'[j]))
                            /\ disk'[j].status = disk[j].status
                            /\ lastStatusWrite'[j] = lastStatusWrite[j]]_vars

\* a track-boundary line has been written less than 1500 ms after the
\* orchestrator started, hence less than 1500 ms after the job's last write
C18_Witness ==
    \E j \in jobs :
        /\ pc[j] = "read"
        /\ obj[j].current_video = Some(1) /\ obj[j].percent = Some(0)
        /\ IsSet(obj[j].playlist_title)
        /\ disk[j].status = Some([status |-> "downloading", progress |-> 0])
        /\ lastStatusWrite[j] = now
        /\ now > Epoch /\ now - Epoch < ThrottleMs

\* The step is a numeric progress line of job j that wrote the status
\* document.
ProgressWrite(j) ==
    /\ Reading(j)
    /\ ~BoundaryStep(j)
    /\ obj'[j].percent \in {Some(p) : p \in ProgressValues}
    /\ lastStatusWrite'[j] # lastStatusWrite[j]

\* C19: a numeric progress line writes the status document only when at
\* least 1500 ms have passed since the job's last status write, and every
\* write of the status document, forced ones included, restarts that window
\* (the forced write of a launcher's start restarts it when the write is
\* called, before the directory is made and the document written).
C19_Throttle ==
    [][\A j \in JobIds :
          /\ ProgressWrite(j) => (now - lastStatusWrite[j] >= ThrottleMs /\ StatusWritten(j))
          /\ (IsSet(disk'[j].status) /\ disk'[j].status # disk[j].status /\ pc[j] # "wstart")
                => lastStatusWrite'[j] = now
          /\ (pc[j] = "ensure" /\ pc'[j] = "wstart") => lastStatusWrite'[j] = now
          /\ lastStatusWrite'[j] <= now']_vars

\* a progress line has been written 1500 ms or more after a forced write
\* that came after the start
C19_Witness ==
    \E j \in jobs :
        /\ pc[j] = "read"
        /\ obj[j].current_video = Some(1)
        /\ disk[j].status = Some([status |-> "downloading", progress |-> 20])
        /\ lastStatusWrite[j] = now

\* C20: a pass of the periodic sweep removes exactly the stored jobs that
\* are completed and older than max-age, record and directory, leaves every
\* other stored job and its directory as they are, and does nothing while
\* cleanup is disabled in the configuration.
C20_SweepExact ==
    [][resp'.op = "sweep"
          => IF config.cleanup_enabled
             THEN /\ jobs' = {j \in jobs : ~(obj[j].status = "completed"
                                             /\ now - obj[j].created_at > MaxAgeMs)}
                  /\ \A j \in jobs \ jobs' : ~disk'[j].exists
                  /\ \A j \in jobs' : disk'[j] = disk[j] /\ obj'[j] = obj[j]
             ELSE UNCHANGED <<jobs, obj, disk>>]_vars

\* The step is a pass of periodicCleanup that removed a directory belonging
\* to no stored job.
OrphanSwept == resp'.op = "sweep" /\ \E j \in JobIds \ jobs : disk[j].exists /\ ~disk'[j].exists

\* In this step no directory of a stored job is removed, except that of a
\* completed job older than max-age.
StoredDirsKept ==
    \A j \in jobs :
        (disk[j].exists /\ ~disk'[j].exists)
            => (obj[j].status = "completed" /\ now - obj[j].created_at > MaxAgeMs)

C22_DeferredCleanup ==
    [][\A j \in JobIds :
          /\ Answered("download", j, 200)
                => /\ j \in jobs /\ obj[j].status = "completed"
                   /\ timers'[j] = IF config.cleanup_enabled
                                   THEN timers[j] \cup {now + MaxAgeMs}
                                   ELSE timers[j]
          /\ Answered("deferred", j, 0)
                => /\ \E t \in timers[j] : t <= now /\ timers'[j] = timers[j] \ {t}
                   /\ IF j \in jobs /\ obj[j].status = "completed"
                      THEN j \notin jobs' /\ ~disk'[j].exists
                      ELSE UNCHANGED <<jobs, obj, disk>>
                   /\ \A k \in JobIds \ {j} :
                          (k \in jobs <=> k \in jobs') /\ disk'[k] = disk[k]
          /\ timers'[j] # timers[j]
                => (Answered("download", j, 200) \/ Answered("deferred", j, 0))]_vars

\* the deletion scheduled by a download of the younger job has fired and
\* removed it, while the older completed job is still stored (no sweep ran)
C22_Witness ==
    /\ resp = [op |-> "deferred", id |-> "c", code |-> 0]
    /\ "c" \notin jobs /\ ~disk["c"].exists
    /\ "b" \in jobs /\ obj["b"].status = "completed" /\ disk["b"].exists

\* a deletion fired for a job that a cancel request had failed in between,
\* and left the record in the store
C22_WitnessNoop ==
    \E j \in jobs : resp = [op |-> "deferred", id |-> j, code |-> 0] /\ obj[j].status = "failed"

\* C23: a manual sweep removes the record and the directory of every
\* completed or failed job and every directory that belongs to no stored
\* job; it leaves every pending, processing, playlist and interrupted job in
\* the store with its record and directory unchanged; the number it returns
\* is the number of removed jobs plus the number of removed directories
\* without a record; and it does so whether cleanup is enabled or not.
C23_ManualSweep ==
    [][resp'.op = "cleanup"
          => LET terminal == {j \in jobs : obj[j].status \in {"completed", "failed"}}
                 orphan == {j \in JobIds \ jobs : disk[j].exists}
             IN  /\ jobs' = jobs \ terminal
                 /\ \A j \in terminal \cup orphan : ~disk'[j].exists
                 /\ \A j \in jobs' : /\ obj'[j] = obj[j]
                                      /\ disk'[j] = disk[j]
                                      /\ proc'[j] = proc[j]
                 /\ resp'.code = 200
                 /\ resp'.removed = Cardinality(terminal) + Cardinality(orphan)]_vars

\* with cleanup disabled, a manual sweep has just removed two or more jobs
\* and directories without a record, and kept a job that is interrupted or
\* being downloaded, with its directory
C23_Witness ==
    /\ resp.op = "cleanup" /\ resp.removed >= 2
    /\ ~config.cleanup_enabled
    /\ \E j \in jobs : obj[j].status \in {"interrupted", "processing", "playlist"} /\ disk[j].exists
    /\ \A j \in JobIds \ jobs : ~disk[j].exists

\* Job j is gone from the store and from the disk.
Removed(j) == j \notin jobs /\ ~disk[j].exists

C25_WriteFailureBestEffort ==
    [][\A j \in JobIds :
          resp' = IoError(j, resp'.code)
              => /\ obj'[j].status = obj[j].status
                 /\ pc[j] = "read" => pc'[j] = "read"]_vars

\* The step is the failing spawn of job j's process.
SpawnFails(j) == pc[j] = "spawn" /\ pc'[j] \notin {"spawn", "read"}

\* C26: a spawn failure sets the job failed with an error message and leaves
\* the record, the process and the directory of every other job, and the
\* set of stored jobs, as they were; and at every moment, after a spawn
\* failure too, a submission with an id not yet used is accepted.
C26_SpawnFailureScoped ==
    /\ [][\A j \in JobIds :
             SpawnFails(j)
                 => /\ obj'[j].status = "failed" /\ IsSet(obj'[j].error)
                    /\ proc'[j] = "none"
                    /\ jobs' = jobs
                    /\ \A k \in JobIds \ {j} :
                           obj'[k] = obj[k] /\ proc'[k] = proc[k] /\ disk'[k] = disk[k]
                                            /\ pc'[k] = pc[k]]_vars
    /\ [](\A k \in JobIds \ used : ENABLED (\E body \in Requests : Submit(k, body)))

\* one job has failed on its spawn while the other one's process runs, and
\* the other job was submitted, or went on, after that
C26_Witness ==
    /\ obj["a"].status = "failed" /\ obj["a"].error = Some("spawn failed")
    /\ "a" \in jobs /\ pc["a"] = "idle"
    /\ obj["b"].status = "processing" /\ proc["b"] = "running"
    /\ resp = NoResp

\* The step is the failure of job j's archiving step.
ZipFails(j) == obj[j].playlist /\ pc[j] = "zip" /\ pc'[j] = "wfail"

\* C27 as stated: a playlist job with at least one output file whose
\* archiving step fails ends failed, with an error naming the archive
\* failure and no output path recorded.
C27_ZipFailureFails ==
    [][\A j \in JobIds :
          ZipFails(j)
              => /\ obj'[j].status = "failed"
                 /\ obj'[j].error = Some("Failed to create ZIP archive")
                 /\ obj'[j].file_path = Undef]_vars

\* C27: a playlist job whose archiving step fails ends failed with an
\* error naming the archive failure; its output path is left as it was
\* (unset, unless an earlier run of the job had recorded one), and neither
\* its documents nor its files change in that step.
C27_ZipFailureKeepsPath ==
    [][\A j \in JobIds :
          ZipFails(j)
              => /\ obj'[j].status = "failed"
                 /\ obj'[j].error = Some("Failed to create ZIP archive")
                 /\ obj'[j].file_path = obj[j].file_path
                 /\ disk'[j] = disk[j]]_vars

\* the archiving step of a playlist job with an output file has failed
C27_Witness ==
    \E j \in jobs :
        /\ obj[j].playlist /\ pc[j] = "wfail"
        /\ obj[j].status = "failed"
        /\ obj[j].error = Some("Failed to create ZIP archive")
        /\ Val(obj[j].total_videos) >= 1
        /\ PlaylistFiles(disk[j]) # {}

\* C28: a record enters the store, outside startup, only by a submission:
\* under an id no job of this lifetime has had, in status pending, and in
\* the store (where list, cancel and remove find it) before anything is
\* written; the handler then writes the metadata document, then the status
\* document, and only with the status write dispatches the launcher, which
\* is dispatched by nothing else than a submission or a resume.
C28_SubmitCreatesPending ==
    [][\A j \in JobIds :
          resp'.op # "startup" =>
              /\ (j \notin jobs /\ j \in jobs')
                    => /\ j \notin used /\ j \in used'
                       /\ obj'[j].status = "pending"
                       /\ pc'[j] = "submit"
                       /\ disk'[j] = disk[j]
              /\ (pc[j] = "submit" /\ pc'[j] # "submit")
                    => (pc'[j] = "submit2" /\ disk'[j].meta = Some(MetaDoc(j, obj[j])))
              /\ (pc[j] = "submit2" /\ pc'[j] # "submit2")
                    => /\ pc'[j] = "ensure"
                       /\ disk'[j].status = Some(StatusDoc(obj[j]))
                       /\ Answered("submit", j, 200)
              /\ (pc[j] # "ensure" /\ pc'[j] = "ensure") => pc[j] \in {"submit2", "resume"}]_vars

\* a submission has just been answered: the launcher is dispatched and both
\* documents of the pending job are on disk
C28_Witness ==
    \E j \in jobs :
        /\ resp = [op |-> "submit", id |-> j, code |-> 200]
        /\ pc[j] = "ensure"
        /\ obj[j].status = "pending"
        /\ disk[j].meta = Some(MetaDoc(j, obj[j]))
        /\ disk[j].status = Some([status |-> "queued", progress |-> 0])

\* a cancel request has found the job before the handler of its submission
\* wrote anything
C28_WitnessVisible ==
    \E j \in jobs : pc[j] = "submit" /\ creq[j] = "write" /\ ~disk[j].exists

\* C29: outside startup recovery no step makes a job interrupted that was
\* not, and a stored job that is interrupted leaves that status only by a
\* resume (to pending, with its launcher about to be dispatched), by a
\* cancel (to failed, "Cancelled by user") or by leaving the store.
C29_InterruptedOnlyByRecovery ==
    [][\A j \in JobIds :
          resp'.op # "startup" =>
              /\ obj'[j].status = "interrupted" => obj[j].status = "interrupted"
              /\ (j \in jobs /\ obj[j].status = "interrupted" /\ obj'[j].status # "interrupted")
                    => \/ obj'[j].status = "pending" /\ pc'[j] = "resume"
                       \/ /\ obj'[j].status = "failed"
                          /\ obj'[j].error = Some("Cancelled by user")
                          /\ creq'[j] = "write"
                       \/ j \notin jobs']_vars

\* a job that recovery loaded as interrupted is being resumed: its record is
\* pending while its status document still says interrupted
C29_Witness ==
    \E j \in jobs :
        /\ pc[j] = "resume" /\ obj[j].status = "pending"
        /\ IsSet(disk[j].status) /\ Val(disk[j].status).status = "interrupted"

\* C30: whenever the status document of a job's directory says "complete",
\* the metadata document of that directory exists and records a non-empty
\* output path.
C30_CompleteHasPath ==
    \A j \in JobIds :
        (disk[j].exists /\ IsSet(disk[j].status) /\ Val(disk[j].status).status = "complete")
            => (IsSet(disk[j].meta) /\ Val(disk[j].meta).file_path # "")

\* C31: a dispatched job whose process exits reaches completed or failed,
\* and its launcher ends: it does not stay in the reader loops or in any
\* later step for ever.
C31_LauncherTerminates ==
    \A j \in Fresh :
        /\ (pc[j] = "ensure") ~> (obj[j].status \in {"completed", "failed"})
        /\ (pc[j] = "ensure") ~> (pc[j] = "idle")
        /\ (pc[j] \in {"read", "drain"}) ~> (pc[j] \in {"wfail", "wmeta"})

\* the launcher of a job cancelled while its process ran has ended, the job
\* being failed or completed
C31_Witness ==
    \E j \in jobs :
        /\ cancelled[j] = "active" /\ pc[j] = "idle" /\ proc[j] = "none"
        /\ obj[j].status \in {"completed", "failed"}

\* C32: a job submitted without the playlist flag for a video URL that
\* carries a list parameter is a single-video job.
C32_VideoUrlWithListIsSingle ==
    \A j \in jobs : obj[j].url \in VideoUrlsWithList => ~obj[j].playlist

\* C33: a job that is left to run is completed only if its directory
\* holds a well-formed media file: with partial, temporary or zero-byte
\* files only, a job of either kind is not completed.
C33_OnlyWellFormedCompletes ==
    \A j \in jobs : obj[j].status = "completed" => "media" \in disk[j].files

PreSpawn(j) == pc[j] \in {"submit", "submit2", "ensure", "wstart", "spawn"}

\* C35: once a cancel request has been answered with success while the
\* job's launcher has not spawned the process, the job has no running
\* process and is not processing, playlist or completed, from then on.
C35_CancelBeforeSpawnIsFinal ==
    \A j \in Fresh :
        []((resp = [op |-> "cancel", id |-> j, code |-> 200] /\ PreSpawn(j))
              => [](proc[j] # "running"
                    /\ obj[j].status \notin {"processing", "playlist", "completed"}))

\* C36: when a remove request for a job is answered with success, and after
\* the step that follows the answer, the job's directory does not exist and
\* the job has no running process.
C36_RemoveLeavesNothing ==
    [][\A j \in Fresh :
          (\/ resp = [op |-> "remove", id |-> j, code |-> 200]
           \/ resp' = [op |-> "remove", id |-> j, code |-> 200])
              => (~disk'[j].exists /\ proc'[j] # "running")]_vars

\* C37: a stored job that is pending is later processing or playlist, or
\* has been taken out of the store, or a cancel request for it has begun.
C37_PendingEventuallyDispatched ==
    \A j \in Served :
        (j \in jobs /\ obj[j].status = "pending")
            ~> (obj[j].status \in {"processing", "playlist"} \/ j \notin jobs
                \/ cancelled[j] # "no")

\* C38: since the orchestrator started, command.spawn() has returned at most
\* one process for each job; and whenever a resume request for a stored job
\* would be accepted, the job has no launcher and no live process.
C38_SpawnedAtMostOnce ==
    \A j \in JobIds :
        /\ spawned[j] <= 1
        /\ (j \in jobs /\ Resumable(obj[j])) => (pc[j] = "idle" /\ proc[j] = "none")

\* the recovered job was resumed and its process runs; a further resume
\* request for it has just been rejected
C38_Witness ==
    /\ resp = [op |-> "resume", id |-> "b", code |-> 400]
    /\ spawned["b"] = 1 /\ proc["b"] = "running"

\* C39: a stored job that is completed has percent 100, and a status
\* document that says complete carries progress 100.
C39_CompletedIsFull ==
    \A j \in JobIds :
        /\ (j \in jobs /\ obj[j].status = "completed") => obj[j].percent = Some(100)
        /\ (IsSet(disk[j].status) /\ Val(disk[j].status).status = "complete")
              => Val(disk[j].status).progress = 100

\* The failed logins recorded for ip that are less than one window old, and
\* those that are at most one window old.
Within(ip) == {i \in 1..Len(rateLimits[ip]) : now - rateLimits[ip][i] < RateLimitWindow}
WithinOrAt(ip) == {i \in 1..Len(rateLimits[ip]) : now - rateLimits[ip][i] <= RateLimitWindow}

\* A login request from ip arrives in this step.
Arrives(ip) == arrivals' = arrivals + 1 /\ resp'.id = ip

\* Five failed logins are recorded for ip that lay less than one window
\* apart (when the last of them was recorded all five were inside the
\* window) and none of which is more than one window old.
StillLimited(ip) ==
    \E S \in SUBSET WithinOrAt(ip) :
        /\ Cardinality(S) = MAX_LOGIN_ATTEMPTS
        /\ \A i, k \in S : rateLimits[ip][i] - rateLimits[ip][k] < RateLimitWindow

\* C40 as stated: once five failed logins of an IP lie inside the window, a
\* login request from that IP is rejected with 429, without its password
\* being checked, as long as none of the five is more than one window old.
C40_LimitedUntilOlderThanWindow ==
    [][\A ip \in Ips :
          (Arrives(ip) /\ StillLimited(ip)) => (resp'.code = 429 /\ logins' = logins)]_vars

\* C40, amended: a login request from an IP is rejected with 429, without
\* its password being checked, exactly if 5 or more failed logins recorded
\* for that IP are less than one window old; a failed login is recorded at
\* the time login() resolves, a successful one empties the IP's record, and
\* no step for one IP changes the record of another.
C40_LimitedWithinWindow ==
    [][\A ip \in Ips :
          /\ Arrives(ip)
                => IF Cardinality(Within(ip)) >= MAX_LOGIN_ATTEMPTS
                   THEN resp'.code = 429 /\ logins' = logins
                   ELSE resp'.code = 0 /\ logins' # logins
          /\ (resp' = [op |-> "login", id |-> ip, code |-> 200, success |-> TRUE])
                => rateLimits'[ip] = <<>>
          /\ (resp' = [op |-> "login", id |-> ip, code |-> 200, success |-> FALSE])
                => rateLimits'[ip] = Append(rateLimits[ip], now)
          /\ resp'.id # ip => rateLimits'[ip] = rateLimits[ip]]_vars

\* a request from an IP with five failed logins inside the window has been
\* rejected, while a request from the other IP is let through
C40_Witness ==
    \E ip \in Ips :
        /\ resp = [op |-> "login", id |-> ip, code |-> 429]
        /\ Cardinality(Within(ip)) >= MAX_LOGIN_ATTEMPTS
        /\ \A other \in Ips \ {ip} : checkRateLimit(rateLimits[other], now)

====
